---- MODULE Spec2Model ----
(***************************************************************************)
(* Verification model of the stop-deduplication engine of gtfstidy:        *)
(*   - UnionFind[T]        (src/processors/toofasttripremover.go:156-247)  *)
(*   - KD-tree range index (src/unnamed/part_000:1-140)                    *)
(*   - ExtendParentStops   (src/processors/extendparentstops.go)           *)
(* The specifications share the variables: SpecUF and SpecUFAny drive the  *)
(* union-find alone, SpecKD and SpecKDBuilt the spatial index alone,       *)
(* SpecText the text functions, SpecRun, SpecRunLine, SpecRunPar,          *)
(* SpecRunAny, SpecRunDegenerate and SpecRunToEnd the whole pass           *)
(* ExtendParentStops.Run over a feed, and SpecHead the goroutines of       *)
(* ExtendTripHeadSign.Run (src/unnamed/part_001:20-47).                    *)
(***************************************************************************)
EXTENDS Integers, Sequences, FiniteSets, TLC

VARIABLES
    \* UnionFind[T] fields (toofasttripremover.go:156-163)
    parent, rank, size, numSets, isPreferredParent,
    \* history of the union-find calls: the last call, and for every id the
    \* ids it is connected to by a chain of the UnionSet calls made so far
    op, chain,
    \* spatial index: the tree, the points handed to it, the last query
    tree, stored, query, results,
    \* ExtendParentStops.Run: feed.Stops, the feed at the start of the run,
    \* the position in Run, the keys the running loop has still to visit,
    \* the slice `points`, the two statistics and the number of the run
    stops, stops0, pc, todo, points, prev, after, run,
    \* an evaluation of normalize or ConsiderSame: its arguments, the orders
    \* in which the replacement map is ranged over, and its result
    text,
    \* ExtendTripHeadSign.Run: feed.Trips, the trips at the start, the
    \* position of Run, the trips its range has still to visit, the number
    \* of values in the channel sem and its capacity, the counter of wg and
    \* the position of the goroutine started for each trip
    trips, trips0, hsPc, hsTodo, sem, maxThreads, wg, workers

vars == <<parent, rank, size, numSets, isPreferredParent, op, chain,
          tree, stored, query, results,
          stops, stops0, pc, todo, points, prev, after, run, text,
          trips, trips0, hsPc, hsTodo, sem, maxThreads, wg, workers>>

ufVars  == <<parent, rank, size, numSets, isPreferredParent>>
kdVars  == <<tree, stored, query, results>>
runVars == <<stops, stops0, pc, todo, points, prev, after, run>>
textVars == <<text>>
headVars == <<trips, trips0, hsPc, hsTodo, sem, maxThreads, wg, workers>>

(***************************************************************************)
(* Go maps: a map is a function on the keys it holds; a read of a missing  *)
(* key yields the zero value of the value type.                            *)
(***************************************************************************)
EmptyMap == [k \in {} |-> 0]

MapGet(m, k, zero) == IF k \in DOMAIN m THEN m[k] ELSE zero

MapPut(m, k, v) == [x \in (DOMAIN m) \cup {k} |-> IF x = k THEN v ELSE m[x]]

\* zero value of the key type T = string
ZeroKey == ""

(***************************************************************************)
(* UnionFind[T]                                                            *)
(***************************************************************************)
\* number of ids the union-find specification registers
MaxKeys == 3

AllKeys == <<"a", "b", "c", "d", "e", "f">>

Keys == {AllKeys[i] : i \in 1..MaxKeys}

\* NewUnionFind: empty maps, numSets 0
UFEmpty ==
    /\ parent = EmptyMap
    /\ rank = EmptyMap
    /\ size = EmptyMap
    /\ numSets = 0
    /\ isPreferredParent = EmptyMap

\* FindSet(i): the map `parent` after the call and the value returned.
\* if uf.parent[i] != i { uf.parent[i] = uf.FindSet(uf.parent[i]) }
\* return uf.parent[i]
RECURSIVE FindSet(_, _)
FindSet(p, i) ==
    IF MapGet(p, i, ZeroKey) # i
    THEN LET r == FindSet(p, MapGet(p, i, ZeroKey))
         IN  [parent |-> MapPut(r.parent, i, r.root), root |-> r.root]
    ELSE [parent |-> p, root |-> MapGet(p, i, ZeroKey)]

\* the root FindSet returns for i in the forest p
Root(p, i) == FindSet(p, i).root

\* the forest after FindSet(x) followed by FindSet(y)
Find2(p, x, y) == FindSet(FindSet(p, x).parent, y).parent

\* Merge without the two preferred-root branches: plain union by rank
MergeByRank(p, rk, sz, pref, xRoot, yRoot) ==
    LET rx == MapGet(rk, xRoot, 0)
        ry == MapGet(rk, yRoot, 0)
        sx == MapGet(sz, xRoot, 0)
        sy == MapGet(sz, yRoot, 0)
    IN  IF rx > ry
        THEN [parent |-> MapPut(p, yRoot, xRoot), rank |-> rk,
              size |-> MapPut(sz, xRoot, sx + sy)]
        ELSE [parent |-> MapPut(p, xRoot, yRoot),
              rank |-> IF rx = ry THEN MapPut(rk, yRoot, ry + 1) ELSE rk,
              size |-> MapPut(sz, yRoot, sy + sx)]

\* Merge whose second preferred-root branch repeats the assignments of the
\* first one (yRoot is attached under xRoot although yRoot is the preferred one)
MergeCopiedBranch(p, rk, sz, pref, xRoot, yRoot) ==
    LET prefX == MapGet(pref, xRoot, FALSE)
        prefY == MapGet(pref, yRoot, FALSE)
        sx == MapGet(sz, xRoot, 0)
        sy == MapGet(sz, yRoot, 0)
    IN  IF (prefX /\ ~prefY) \/ (prefY /\ ~prefX)
        THEN [parent |-> MapPut(p, yRoot, xRoot), rank |-> rk,
              size |-> MapPut(sz, xRoot, sx + sy)]
        ELSE MergeByRank(p, rk, sz, pref, xRoot, yRoot)

\* Merge whose second preferred-root branch does not add up the sizes
MergeSizeForgotten(p, rk, sz, pref, xRoot, yRoot) ==
    LET prefX == MapGet(pref, xRoot, FALSE)
        prefY == MapGet(pref, yRoot, FALSE)
    IN  IF prefX /\ ~prefY
        THEN [parent |-> MapPut(p, yRoot, xRoot), rank |-> rk,
              size |-> MapPut(sz, xRoot, MapGet(sz, xRoot, 0) + MapGet(sz, yRoot, 0))]
        ELSE IF prefY /\ ~prefX
        THEN [parent |-> MapPut(p, xRoot, yRoot), rank |-> rk, size |-> sz]
        ELSE MergeByRank(p, rk, sz, pref, xRoot, yRoot)

\* Merge whose rank comparison is reversed: the root of higher rank is
\* attached under the root of lower rank
MergeUnderLower(p, rk, sz, pref, xRoot, yRoot) ==
    LET prefX == MapGet(pref, xRoot, FALSE)
        prefY == MapGet(pref, yRoot, FALSE)
        rx == MapGet(rk, xRoot, 0)
        ry == MapGet(rk, yRoot, 0)
        sx == MapGet(sz, xRoot, 0)
        sy == MapGet(sz, yRoot, 0)
    IN  IF prefX /\ ~prefY
        THEN [parent |-> MapPut(p, yRoot, xRoot), rank |-> rk,
              size |-> MapPut(sz, xRoot, sx + sy)]
        ELSE IF prefY /\ ~prefX
        THEN [parent |-> MapPut(p, xRoot, yRoot), rank |-> rk,
              size |-> MapPut(sz, yRoot, sy + sx)]
        ELSE IF rx < ry
        THEN [parent |-> MapPut(p, yRoot, xRoot), rank |-> rk,
              size |-> MapPut(sz, xRoot, sx + sy)]
        ELSE [parent |-> MapPut(p, xRoot, yRoot),
              rank |-> IF rx = ry THEN MapPut(rk, yRoot, ry + 1) ELSE rk,
              size |-> MapPut(sz, yRoot, sy + sx)]

\* the body of UnionSet after the two FindSet calls, for distinct roots:
\* the new values of parent, rank and size
Merge(p, rk, sz, pref, xRoot, yRoot) ==
    LET prefX == MapGet(pref, xRoot, FALSE)
        prefY == MapGet(pref, yRoot, FALSE)
        rx == MapGet(rk, xRoot, 0)
        ry == MapGet(rk, yRoot, 0)
        sx == MapGet(sz, xRoot, 0)
        sy == MapGet(sz, yRoot, 0)
    IN  IF prefX /\ ~prefY
        THEN [parent |-> MapPut(p, yRoot, xRoot), rank |-> rk,
              size |-> MapPut(sz, xRoot, sx + sy)]
        ELSE IF prefY /\ ~prefX
        THEN [parent |-> MapPut(p, xRoot, yRoot), rank |-> rk,
              size |-> MapPut(sz, yRoot, sy + sx)]
        ELSE IF rx > ry
        THEN [parent |-> MapPut(p, yRoot, xRoot), rank |-> rk,
              size |-> MapPut(sz, xRoot, sx + sy)]
        ELSE [parent |-> MapPut(p, xRoot, yRoot),
              rank |-> IF rx = ry THEN MapPut(rk, yRoot, ry + 1) ELSE rk,
              size |-> MapPut(sz, yRoot, sy + sx)]

\* UnionSet that links the arguments themselves instead of their roots
UnionSetOnNoFind(u, x, y) ==
    IF x = y
    THEN u
    ELSE LET m == Merge(u.parent, u.rank, u.size, u.isPreferredParent, x, y)
         IN  [u EXCEPT !.parent = m.parent, !.rank = m.rank,
                       !.size = m.size, !.numSets = u.numSets - 1]

\* UnionSet that decrements the set count before comparing the roots
UnionSetOnCountFirst(u, x, y) ==
    LET fx == FindSet(u.parent, x)
        fy == FindSet(fx.parent, y)
    IN  IF fx.root = fy.root
        THEN [u EXCEPT !.parent = fy.parent, !.numSets = u.numSets - 1]
        ELSE LET m == Merge(fy.parent, u.rank, u.size, u.isPreferredParent,
                            fx.root, fy.root)
             IN  [u EXCEPT !.parent = m.parent, !.rank = m.rank,
                           !.size = m.size, !.numSets = u.numSets - 1]

\* UnionSet(x, y) as a function of the union-find state u
\* (a record of the five fields)
UnionSetOn(u, x, y) ==
    LET fx == FindSet(u.parent, x)
        fy == FindSet(fx.parent, y)
    IN  IF fx.root = fy.root
        THEN [u EXCEPT !.parent = fy.parent]
        ELSE LET m == Merge(fy.parent, u.rank, u.size, u.isPreferredParent,
                            fx.root, fy.root)
             IN  [u EXCEPT !.parent = m.parent, !.rank = m.rank,
                           !.size = m.size, !.numSets = u.numSets - 1]

\* InitKey(k) as a function of the union-find state u
InitKeyOn(u, k) ==
    [u EXCEPT !.parent = MapPut(u.parent, k, k),
              !.rank = MapPut(u.rank, k, 0),
              !.size = MapPut(u.size, k, 1),
              !.numSets = u.numSets + 1]

UFState == [parent |-> parent, rank |-> rank, size |-> size,
            numSets |-> numSets, isPreferredParent |-> isPreferredParent]

SetUF(u) ==
    /\ parent' = u.parent
    /\ rank' = u.rank
    /\ size' = u.size
    /\ numSets' = u.numSets
    /\ isPreferredParent' = u.isPreferredParent

Call(name, x, y) == [name |-> name, x |-> x, y |-> y]

\* the chains after one more UnionSet(x, y)
Link(ch, x, y) ==
    [k \in DOMAIN ch |-> IF k \in ch[x] \cup ch[y] THEN ch[x] \cup ch[y] ELSE ch[k]]

Registered == DOMAIN parent

\* uf.InitKey(k), on an id not registered before
InitKey(k) ==
    /\ k \notin Registered
    /\ SetUF(InitKeyOn(UFState, k))
    /\ op' = Call("InitKey", k, k)
    /\ chain' = MapPut(chain, k, {k})
    /\ UNCHANGED <<kdVars, runVars, textVars, headVars>>

\* uf.MarkAsParent(key)
MarkAsParent(key) ==
    /\ key \in Registered
    /\ isPreferredParent' = MapPut(isPreferredParent, key, TRUE)
    /\ op' = Call("MarkAsParent", key, key)
    /\ UNCHANGED <<parent, rank, size, numSets, chain, kdVars, runVars, textVars, headVars>>

\* uf.FindSet(i)
FindSetCall(i) ==
    /\ i \in Registered
    /\ parent' = FindSet(parent, i).parent
    /\ op' = Call("FindSet", i, FindSet(parent, i).root)
    /\ UNCHANGED <<rank, size, numSets, isPreferredParent, chain, kdVars, runVars, textVars, headVars>>

\* uf.IsSameSet(i, j): FindSet(i) == FindSet(j)
IsSameSet(i, j) ==
    /\ i \in Registered /\ j \in Registered
    /\ parent' = Find2(parent, i, j)
    /\ op' = Call("IsSameSet", i, j)
    /\ UNCHANGED <<rank, size, numSets, isPreferredParent, chain, kdVars, runVars, textVars, headVars>>

\* uf.UnionSet(x, y)
UnionSet(x, y) ==
    /\ x \in Registered /\ y \in Registered
    /\ SetUF(UnionSetOn(UFState, x, y))
    /\ op' = Call("UnionSet", x, y)
    /\ chain' = Link(chain, x, y)
    /\ UNCHANGED <<kdVars, runVars, textVars, headVars>>

\* uf.SizeOfSet(i): uf.size[uf.FindSet(i)]
SizeOfSet(i) ==
    /\ i \in Registered
    /\ parent' = FindSet(parent, i).parent
    /\ op' = Call("SizeOfSet", i, MapGet(size, FindSet(parent, i).root, 0))
    /\ UNCHANGED <<rank, size, numSets, isPreferredParent, chain, kdVars, runVars, textVars, headVars>>

\* the forest after FindSet on every key of ks, in some order
RECURSIVE FindAll(_, _)
FindAll(p, ks) ==
    IF ks = {} THEN p
    ELSE LET k == CHOOSE k \in ks : TRUE
         IN  FindAll(FindSet(p, k).parent, ks \ {k})

\* two of the orders in which a range over a map with the keys ks can visit
\* them: the order of AllKeys and the opposite one. (The arguments of the
\* calls Apply makes do not depend on the order: FindSet returns the same
\* root for a key before and after the compression of other paths.)
KeyOrders(ks) ==
    LET up == SelectSeq(AllKeys, LAMBDA k : k \in ks)
    IN  {up, [i \in 1..Len(up) |-> up[Len(up) + 1 - i]]}

\* uf.Apply(f) calling f(key, uf.parent[key]) without FindSet
RECURSIVE ApplyCallsNoFind(_, _)
ApplyCallsNoFind(p, order) ==
    IF order = <<>> THEN <<>>
    ELSE <<<<Head(order), MapGet(p, Head(order), ZeroKey)>>>>
             \o ApplyCallsNoFind(p, Tail(order))

\* the calls f(key, parent) that uf.Apply(f) makes when the range over
\* uf.parent visits the keys in the given order: parent := uf.FindSet(key)
RECURSIVE ApplyCalls(_, _)
ApplyCalls(p, order) ==
    IF order = <<>> THEN <<>>
    ELSE LET found == FindSet(p, Head(order))
         IN  <<<<Head(order), found.root>>>> \o ApplyCalls(found.parent, Tail(order))

\* uf.Apply(f) with a callback that leaves the union-find alone; the calls
\* of f are kept with the record of the call
Apply ==
    /\ Registered # {}
    /\ parent' = FindAll(parent, DOMAIN parent)
    /\ \E order \in KeyOrders(DOMAIN parent) :
          op' = [name |-> "Apply", x |-> ZeroKey, y |-> ZeroKey,
                 calls |-> ApplyCalls(parent, order)]
    /\ UNCHANGED <<rank, size, numSets, isPreferredParent, chain, kdVars, runVars, textVars, headVars>>

KDIdle ==
    /\ tree = [nil |-> TRUE]
    /\ stored = <<>>
    /\ query = <<>>
    /\ results = <<>>

\* no text function is evaluated
TextIdle == text = [call |-> "none", done |-> FALSE]

\* ExtendTripHeadSign.Run is not called
HeadIdle ==
    /\ trips = <<>>
    /\ trips0 = <<>>
    /\ hsPc = "idle"
    /\ hsTodo = {}
    /\ sem = 0
    /\ maxThreads = 0
    /\ wg = 0
    /\ workers = <<>>

RunIdle ==
    /\ stops = EmptyMap
    /\ stops0 = EmptyMap
    /\ pc = "idle"
    /\ todo = {}
    /\ points = <<>>
    /\ prev = 0
    /\ after = 0
    /\ run = 0

InitUF ==
    /\ UFEmpty
    /\ op = Call("NewUnionFind", ZeroKey, ZeroKey)
    /\ chain = EmptyMap
    /\ KDIdle
    /\ RunIdle
    /\ TextIdle
    /\ HeadIdle

NextUF ==
    \/ \E k \in Keys : InitKey(k)
    \/ \E k \in Keys : MarkAsParent(k)
    \/ \E k \in Keys : FindSetCall(k)
    \/ \E i, j \in Keys : IsSameSet(i, j)
    \/ \E x, y \in Keys : UnionSet(x, y)
    \/ \E k \in Keys : SizeOfSet(k)
    \/ Apply

SpecUF == InitUF /\ [][NextUF]_vars

(***************************************************************************)
(* KD-tree over (Lat, Lon) with haversine range search                     *)
(*                                                                         *)
(* Coordinates are whole degrees on a 30-degree grid, so that every cosine *)
(* the code takes is one of the table CosTab (fixed point, Scale = 1.0).   *)
(* A radius is given by the two numbers the code derives from radiusKm:    *)
(*   mdeg = radiusKm / EarthRadiusKm * 180/pi, in thousandths of a degree  *)
(*   hav2 = 2 * sin^2(radiusKm / (2 * EarthRadiusKm)) * Scale^3            *)
(***************************************************************************)
\* Scale * cos(0), cos(30), ..., cos(180 degrees)
CosTab == <<1000, 866, 500, 0, -500, -866, -1000>>

\* the fixed-point one: Scale * cos(0)
Scale == CosTab[1]

Abs(x) == IF x < 0 THEN -x ELSE x

\* Scale * math.Cos(d * math.Pi / 180) for d a multiple of 30 degrees
Cos(d) ==
    LET a == Abs(d) % 360
        b == IF a > 180 THEN 360 - a ELSE a
    IN  CosTab[(b \div 30) + 1]

\* radiusKm = 0.5 (extendparentstops.go:22)
RadiusHalfKm == [mdeg |-> 4, hav2 |-> 3]

\* radiusKm = 12000 (107.92 degrees of arc)
Radius12000Km == [mdeg |-> 107918, hav2 |-> 1307665398]

\* 2 * a * Scale^3 for the a of Haversine:
\*   a = sin^2(dLat/2) + cos(lat1) * cos(lat2) * sin^2(dLon/2),
\* with sin^2(x/2) = (1 - cos x) / 2
Haversine(lat1, lon1, lat2, lon2) ==
    (Scale - Cos(lat2 - lat1)) * Scale * Scale
        + Cos(lat1) * Cos(lat2) * (Scale - Cos(lon2 - lon1))

\* distance <= radiusKm, where distance = EarthRadiusKm * 2 * atan2(sqrt a, sqrt(1-a))
\* grows with a: the test is a <= sin^2(radiusKm / (2 * EarthRadiusKm))
WithinRadius(q, p, radius) ==
    Haversine(q.Lat, q.Lon, p.Lat, p.Lon) <= radius.hav2

\* coordDegrees(radiusKm, lat, cd) as the fraction num / den of a degree;
\* den = 0 at lat = +-90, where the code divides by cos = 6.1e-17 and gets
\* a delta larger than any longitude difference
coordDegrees(radius, lat, cd) ==
    IF cd = 0
    THEN [num |-> radius.mdeg, den |-> 1000]
    ELSE [num |-> radius.mdeg * Scale, den |-> 1000 * Cos(lat)]

\* queryCoord - delta <= nodeCoord
SearchLeft(queryCoord, nodeCoord, delta) ==
    (queryCoord - nodeCoord) * delta.den <= delta.num

\* queryCoord + delta >= nodeCoord
SearchRight(queryCoord, nodeCoord, delta) ==
    (nodeCoord - queryCoord) * delta.den <= delta.num

\* a nil *Node
Nil == [nil |-> TRUE]

MkNode(p, l, r, axis) == [Point |-> p, Left |-> l, Right |-> r, Axis |-> axis]

Coord(p, axis) == IF axis = 0 THEN p.Lat ELSE p.Lon

\* sort.SliceStable left out: the slice as it is
SliceStableSkipped(s, axis) == s

\* sort.SliceStable(points, less on the axis): insertion of the last element
\* behind the elements not greater than it
RECURSIVE SliceStable(_, _)
SliceStable(s, axis) ==
    IF Len(s) <= 1 THEN s
    ELSE LET rest == SliceStable(SubSeq(s, 1, Len(s) - 1), axis)
             x == s[Len(s)]
             pos == Cardinality({i \in 1..Len(rest) :
                                   ~(Coord(x, axis) < Coord(rest[i], axis))})
         IN  SubSeq(rest, 1, pos) \o <<x>> \o SubSeq(rest, pos + 1, Len(rest))

\* BuildKDTree that returns an empty node, &Node[T]{}, for an empty slice
RECURSIVE BuildKDTreeEmptyNode(_, _)
BuildKDTreeEmptyNode(pts, depth) ==
    IF Len(pts) = 0
    THEN MkNode([Lat |-> 0, Lon |-> 0, Data |-> 0], Nil, Nil, 0)
    ELSE LET axis == depth % 2
             sorted == SliceStable(pts, axis)
             median == Len(sorted) \div 2
         IN  MkNode(sorted[median + 1],
                    BuildKDTreeEmptyNode(SubSeq(sorted, 1, median), depth + 1),
                    BuildKDTreeEmptyNode(SubSeq(sorted, median + 2, Len(sorted)),
                                         depth + 1),
                    axis)

\* BuildKDTree whose right half starts at the median instead of behind it
RECURSIVE BuildKDTreeKeepMedian(_, _)
BuildKDTreeKeepMedian(pts, depth) ==
    IF Len(pts) = 0 THEN Nil
    ELSE LET axis == depth % 2
             sorted == SliceStable(pts, axis)
             median == Len(sorted) \div 2
         IN  MkNode(sorted[median + 1],
                    BuildKDTreeKeepMedian(SubSeq(sorted, 1, median), depth + 1),
                    IF Len(sorted) = 1 THEN Nil
                    ELSE BuildKDTreeKeepMedian(SubSeq(sorted, median + 1, Len(sorted)),
                                               depth + 1),
                    axis)

\* BuildKDTree that takes the first point of the sorted slice as the node
RECURSIVE BuildKDTreeSplitAtFirst(_, _)
BuildKDTreeSplitAtFirst(pts, depth) ==
    IF Len(pts) = 0 THEN Nil
    ELSE LET axis == depth % 2
             sorted == SliceStable(pts, axis)
         IN  MkNode(sorted[1],
                    Nil,
                    BuildKDTreeSplitAtFirst(SubSeq(sorted, 2, Len(sorted)), depth + 1),
                    axis)

\* BuildKDTree(points, depth); the Go slice is 0-based, so points[median]
\* is sorted[median + 1] here
RECURSIVE BuildKDTree(_, _)
BuildKDTree(pts, depth) ==
    IF Len(pts) = 0 THEN Nil
    ELSE LET axis == depth % 2
             sorted == SliceStable(pts, axis)
             median == Len(sorted) \div 2
         IN  MkNode(sorted[median + 1],
                    BuildKDTree(SubSeq(sorted, 1, median), depth + 1),
                    BuildKDTree(SubSeq(sorted, median + 2, Len(sorted)), depth + 1),
                    axis)

\* Insert that goes left also when the two coordinates are equal
RECURSIVE InsertLeftOnEqual(_, _, _)
InsertLeftOnEqual(root, point, depth) ==
    IF root = Nil THEN MkNode(point, Nil, Nil, depth % 2)
    ELSE IF Coord(point, root.Axis) <= Coord(root.Point, root.Axis)
    THEN [root EXCEPT !.Left = InsertLeftOnEqual(root.Left, point, depth + 1)]
    ELSE [root EXCEPT !.Right = InsertLeftOnEqual(root.Right, point, depth + 1)]

\* Insert(root, point, depth)
RECURSIVE Insert(_, _, _)
Insert(root, point, depth) ==
    IF root = Nil THEN MkNode(point, Nil, Nil, depth % 2)
    ELSE IF Coord(point, root.Axis) < Coord(root.Point, root.Axis)
    THEN [root EXCEPT !.Left = Insert(root.Left, point, depth + 1)]
    ELSE [root EXCEPT !.Right = Insert(root.Right, point, depth + 1)]

\* SearchRange that puts a point found in front of *results
RECURSIVE SearchRangePrepend(_, _, _, _, _)
SearchRangePrepend(node, q, radius, depth, res) ==
    IF node = Nil THEN res
    ELSE LET res1 == IF WithinRadius(q, node.Point, radius)
                     THEN <<node.Point>> \o res ELSE res
             cd == depth % 2
             queryCoord == Coord(q, cd)
             nodeCoord == Coord(node.Point, cd)
             delta == coordDegrees(radius, q.Lat, cd)
             res2 == IF SearchLeft(queryCoord, nodeCoord, delta)
                     THEN SearchRangePrepend(node.Left, q, radius, depth + 1, res1)
                     ELSE res1
         IN  IF SearchRight(queryCoord, nodeCoord, delta)
             THEN SearchRangePrepend(node.Right, q, radius, depth + 1, res2)
             ELSE res2

\* SearchRange(node, query, radiusKm, depth, results): the sequence *results
\* after the call
RECURSIVE SearchRange(_, _, _, _, _)
SearchRange(node, q, radius, depth, res) ==
    IF node = Nil THEN res
    ELSE LET res1 == IF WithinRadius(q, node.Point, radius)
                     THEN Append(res, node.Point) ELSE res
             cd == depth % 2
             queryCoord == Coord(q, cd)
             nodeCoord == Coord(node.Point, cd)
             delta == coordDegrees(radius, q.Lat, cd)
             res2 == IF SearchLeft(queryCoord, nodeCoord, delta)
                     THEN SearchRange(node.Left, q, radius, depth + 1, res1)
                     ELSE res1
         IN  IF SearchRight(queryCoord, nodeCoord, delta)
             THEN SearchRange(node.Right, q, radius, depth + 1, res2)
             ELSE res2

\* number of points the index specification stores
MaxPoints == 3

LatGrid == {0, 60}

LonGrid == {-180, 0, 180}

Radii == {RadiusHalfKm, Radius12000Km}

\* the n-th point handed to the index: its payload is its number
PointsAt(n) == [Lat : LatGrid, Lon : LonGrid, Data : {n}]

\* the sequences of n points with payloads 1..n
RECURSIVE PointSeqs(_)
PointSeqs(n) ==
    IF n = 0 THEN {<<>>}
    ELSE {Append(s, p) : s \in PointSeqs(n - 1), p \in PointsAt(n)}

\* tree = BuildKDTree(points, 0) on a fresh slice of n points
Build(n) ==
    /\ stored = <<>> /\ tree = Nil
    /\ \E pts \in PointSeqs(n) :
          /\ tree' = BuildKDTree(pts, 0)
          /\ stored' = pts
    /\ query' = <<>>
    /\ results' = <<>>
    /\ UNCHANGED <<ufVars, op, chain, runVars, textVars, headVars>>

\* root = Insert(root, point, 0)
InsertPoint ==
    /\ Len(stored) < MaxPoints
    /\ \E p \in PointsAt(Len(stored) + 1) :
          /\ tree' = Insert(tree, p, 0)
          /\ stored' = Append(stored, p)
    /\ query' = <<>>
    /\ results' = <<>>
    /\ UNCHANGED <<ufVars, op, chain, runVars, textVars, headVars>>

\* var results []Point; SearchRange(root, query, radiusKm, 0, &results)
Search ==
    /\ \E lat \in LatGrid, lon \in LonGrid, radius \in Radii :
          /\ query' = [Lat |-> lat, Lon |-> lon, radius |-> radius]
          /\ results' = SearchRange(tree, query', radius, 0, <<>>)
    /\ UNCHANGED <<tree, stored, ufVars, op, chain, runVars, textVars, headVars>>

UFIdle ==
    /\ UFEmpty
    /\ op = Call("NewUnionFind", ZeroKey, ZeroKey)
    /\ chain = EmptyMap

InitKD ==
    /\ tree = Nil
    /\ stored = <<>>
    /\ query = <<>>
    /\ results = <<>>
    /\ UFIdle
    /\ RunIdle
    /\ TextIdle
    /\ HeadIdle

NextKD ==
    \/ \E n \in 0..MaxPoints : Build(n)
    \/ InsertPoint
    \/ Search

SpecKD == InitKD /\ [][NextKD]_vars


(***************************************************************************)
(* normalize and ConsiderSame (extendparentstops.go:20-113)                *)
(* A string is the sequence of its characters.                             *)
(***************************************************************************)
TOL_IS_SAME == 85

UpperCase ==
    [A |-> "a", B |-> "b", C |-> "c", D |-> "d", E |-> "e", F |-> "f",
     G |-> "g", H |-> "h", I |-> "i", J |-> "j", K |-> "k", L |-> "l",
     M |-> "m", N |-> "n", O |-> "o", P |-> "p", Q |-> "q", R |-> "r",
     S |-> "s", T |-> "t", U |-> "u", V |-> "v", W |-> "w", X |-> "x",
     Y |-> "y", Z |-> "z"]

LowerCase == {UpperCase[c] : c \in DOMAIN UpperCase}

Digits == {"0", "1", "2", "3", "4", "5", "6", "7", "8", "9"}

\* the class \w of the regular expressions
WordChars == LowerCase \cup DOMAIN UpperCase \cup Digits \cup {"_"}

\* the class \s
SpaceChars == {" "}

\* strings.ToLower(unidecode.Unidecode(name)) on ASCII text
ToLower(s) ==
    [i \in 1..Len(s) |-> IF s[i] \in DOMAIN UpperCase THEN UpperCase[s[i]] ELSE s[i]]

\* the first index >= i of s that holds no white space (Len(s) + 1 if none)
RECURSIVE SkipSpace(_, _)
SkipSpace(s, i) ==
    IF i <= Len(s) /\ s[i] \in SpaceChars THEN SkipSpace(s, i + 1) ELSE i

\* the first index >= i of s that holds c (0 if none)
RECURSIVE IndexFrom(_, _, _)
IndexFrom(s, c, i) ==
    IF i > Len(s) THEN 0
    ELSE IF s[i] = c THEN i
    ELSE IndexFrom(s, c, i + 1)

\* regexp `\s*\([^)]*\)` replaced by "", from index i on
RECURSIVE RemoveParens(_, _)
RemoveParens(s, i) ==
    IF i > Len(s) THEN <<>>
    ELSE LET j == SkipSpace(s, i)
             close == IF j <= Len(s) /\ s[j] = "(" THEN IndexFrom(s, ")", j + 1) ELSE 0
         IN  IF close # 0
             THEN RemoveParens(s, close + 1)
             ELSE <<s[i]>> \o RemoveParens(s, i + 1)

\* strings.ReplaceAll(name, "-", " ")
HyphensToSpaces(s) == [i \in 1..Len(s) |-> IF s[i] = "-" THEN " " ELSE s[i]]

\* regexp `[^\w\s]` replaced by ""
RemovePunctuation(s) == SelectSeq(s, LAMBDA c : c \in WordChars \cup SpaceChars)

\* strings.Fields(s) from index i on, w being the field read so far
RECURSIVE FieldsFrom(_, _, _)
FieldsFrom(s, i, w) ==
    IF i > Len(s) THEN (IF w = <<>> THEN <<>> ELSE <<w>>)
    ELSE IF s[i] \in SpaceChars
    THEN (IF w = <<>> THEN <<>> ELSE <<w>>) \o FieldsFrom(s, i + 1, <<>>)
    ELSE FieldsFrom(s, i + 1, Append(w, s[i]))

Fields(s) == FieldsFrom(s, 1, <<>>)

\* strings.Join(words, " ")
RECURSIVE Join(_)
Join(ws) ==
    IF ws = <<>> THEN <<>>
    ELSE IF Len(ws) = 1 THEN ws[1]
    ELSE ws[1] \o <<" ">> \o Join(Tail(ws))

\* regexp `\b(w1|w2|...)\b` replaced by "" on text of word characters and
\* white space, followed by strings.Join(strings.Fields(name), " "):
\* the fields that are none of the words, joined by single spaces
RemoveWords(s, words) == Join(SelectSeq(Fields(s), LAMBDA w : w \notin words))

\* whether old occurs in s at index i
MatchAt(s, old, i) ==
    /\ i + Len(old) - 1 <= Len(s)
    /\ \A k \in 1..Len(old) : s[i + k - 1] = old[k]

\* strings.ReplaceAll(s, old, new) from index i on
RECURSIVE ReplaceAllFrom(_, _, _, _)
ReplaceAllFrom(s, old, new, i) ==
    IF i > Len(s) THEN <<>>
    ELSE IF MatchAt(s, old, i)
    THEN new \o ReplaceAllFrom(s, old, new, i + Len(old))
    ELSE <<s[i]>> \o ReplaceAllFrom(s, old, new, i + 1)

ReplaceAll(s, old, new) == ReplaceAllFrom(s, old, new, 1)

\* the replacement table of normalize, in the order of the source
replacements ==
    <<
      [old |-> <<" ", "h", "a", "u", "p", "t", "b", "a", "h", "n", "h", "o", "f">>,
       new |-> <<" ", "h", "b", "f">>],
      [old |-> <<" ", "b", "a", "h", "n", "h", "o", "f">>,
       new |-> <<" ", "b", "f">>],
      [old |-> <<"h", "a", "u", "p", "t", "b", "a", "h", "n", "h", "o", "f", " ">>,
       new |-> <<"h", "b", "f", " ">>],
      [old |-> <<"b", "a", "h", "n", "h", "o", "f", " ">>,
       new |-> <<"b", "f", " ">>],
      [old |-> <<"s", "t", "r", "a", "s", "s", "e">>,
       new |-> <<"s", "t", "r">>],
      [old |-> <<"p", "l", "a", "t", "z">>,
       new |-> <<"p", "l">>],
      [old |-> <<" ", "s", "t", "a", "t", "i", "o", "n">>,
       new |-> <<" ", "s", "t", "n">>],
      [old |-> <<" ", "s", "t", "r", "e", "e", "t">>,
       new |-> <<" ", "s", "t">>],
      [old |-> <<" ", "a", "v", "e", "n", "u", "e">>,
       new |-> <<" ", "a", "v", "e">>],
      [old |-> <<" ", "b", "o", "u", "l", "e", "v", "a", "r", "d">>,
       new |-> <<" ", "b", "l", "v", "d">>],
      [old |-> <<" ", "r", "o", "a", "d">>,
       new |-> <<" ", "r", "d">>],
      [old |-> <<" ", "d", "r", "i", "v", "e">>,
       new |-> <<" ", "d", "r">>],
      [old |-> <<" ", "c", "o", "u", "r", "t">>,
       new |-> <<" ", "c", "t">>],
      [old |-> <<" ", "s", "q", "u", "a", "r", "e">>,
       new |-> <<" ", "s", "q">>],
      [old |-> <<" ", "p", "a", "r", "k", "w", "a", "y">>,
       new |-> <<" ", "p", "k", "w", "y">>],
      [old |-> <<" ", "h", "i", "g", "h", "w", "a", "y">>,
       new |-> <<" ", "h", "w", "y">>],
      [old |-> <<" ", "c", "i", "r", "c", "l", "e">>,
       new |-> <<" ", "c", "i", "r">>],
      [old |-> <<" ", "l", "a", "n", "e">>,
       new |-> <<" ", "l", "n">>],
      [old |-> <<" ", "p", "l", "a", "c", "e">>,
       new |-> <<" ", "p", "l">>],
      [old |-> <<" ", "t", "e", "r", "r", "a", "c", "e">>,
       new |-> <<" ", "t", "e", "r">>],
      [old |-> <<" ", "e", "x", "p", "r", "e", "s", "s", "w", "a", "y">>,
       new |-> <<" ", "e", "x", "p", "y">>],
      [old |-> <<" ", "j", "u", "n", "c", "t", "i", "o", "n">>,
       new |-> <<" ", "j", "c", "t">>],
      [old |-> <<" ", "i", "n", "t", "e", "r", "s", "e", "c", "t", "i", "o", "n">>,
       new |-> <<" ", "i", "n", "t">>],
      [old |-> <<" ", "t", "e", "r", "m", "i", "n", "a", "l">>,
       new |-> <<" ", "t", "e", "r", "m">>],
      [old |-> <<" ", "a", "i", "r", "p", "o", "r", "t">>,
       new |-> <<" ", "a", "p", "t">>],
      [old |-> <<" ", "d", "o", "w", "n", "t", "o", "w", "n">>,
       new |-> <<" ", "d", "t", "w", "n">>],
      [old |-> <<" ", "f", "e", "r", "r", "y">>,
       new |-> <<" ", "f", "r", "y">>]
    >>

\* (bussteig|gleis|bahnsteig|bus|zug)
PlatformWords ==
    {
      <<"b", "u", "s", "s", "t", "e", "i", "g">>,
      <<"g", "l", "e", "i", "s">>,
      <<"b", "a", "h", "n", "s", "t", "e", "i", "g">>,
      <<"b", "u", "s">>,
      <<"z", "u", "g">>
    }

\* (db|mvv|vrr|rmv|bvg|sbb|oebb|sncf|trenitalia)
OperatorWords ==
    {
      <<"d", "b">>,
      <<"m", "v", "v">>,
      <<"v", "r", "r">>,
      <<"r", "m", "v">>,
      <<"b", "v", "g">>,
      <<"s", "b", "b">>,
      <<"o", "e", "b", "b">>,
      <<"s", "n", "c", "f">>,
      <<"t", "r", "e", "n", "i", "t", "a", "l", "i", "a">>
    }

\* (s\+u|s|u|rb|re|tram|bus|bhf); s+u cannot be left once the punctuation is gone
PrefixWords ==
    {
      <<"s">>,
      <<"u">>,
      <<"r", "b">>,
      <<"r", "e">>,
      <<"t", "r", "a", "m">>,
      <<"b", "u", "s">>,
      <<"b", "h", "f">>
    }

\* the stop names of the feeds; normalize returns the same string for each of
\* them in whatever order the replacement map is ranged over
RunNames == {"Ulm Bahnhof", "Ulm Bf (tief)", "Ulm Sued"}

\* []rune(name)
Runes ==
    ("Ulm Bahnhof" :>
        <<"U", "l", "m", " ", "B", "a", "h", "n", "h", "o", "f">>)
    @@ ("Ulm Bf (tief)" :>
        <<"U", "l", "m", " ", "B", "f", " ", "(", "t", "i", "e", "f", ")">>)
    @@ ("Ulm Sued" :>
        <<"U", "l", "m", " ", "S", "u", "e", "d">>)
    @@ ("Hauptbahnhof Ost" :>
        <<"H", "a", "u", "p", "t", "b", "a", "h", "n", "h", "o", "f", " ", "O", "s", "t">>)
    @@ ("Hbf Ost" :>
        <<"H", "b", "f", " ", "O", "s", "t">>)

\* for k, v := range replacements { name = strings.ReplaceAll(name, k, v) },
\* the map being ranged over in the order `order` (a sequence of indices)
RECURSIVE ApplyReplacements(_, _)
ApplyReplacements(s, order) ==
    \* (no key of the map is empty: an empty name stays empty)
    IF order = <<>> \/ s = <<>> THEN s
    ELSE ApplyReplacements(ReplaceAll(s, replacements[order[1]].old,
                                         replacements[order[1]].new),
                           Tail(order))

\* normalize(name) when the replacement map is ranged over in `order`
normalizeIn(name, order) ==
    LET lower == ToLower(name)
        noParens == RemoveParens(lower, 1)
        spaced == HyphensToSpaces(noParens)
        noPunct == RemovePunctuation(spaced)
        noPlatform == RemoveWords(noPunct, PlatformWords)
        noOperator == RemoveWords(noPlatform, OperatorWords)
        replaced == ApplyReplacements(noOperator, order)
    IN  RemoveWords(replaced, PrefixWords)

SourceOrder == [i \in 1..Len(replacements) |-> i]

\* normalize(name), the map ranged over in the order of the source
normalize(name) == normalizeIn(name, SourceOrder)

\* one row of the longest-common-subsequence table: above is the row of the
\* characters before x, cur the part of the new row already filled in
RECURSIVE LcsRow(_, _, _, _)
LcsRow(above, x, b, cur) ==
    IF Len(cur) = Len(b) + 1 THEN cur
    ELSE LET j == Len(cur)
             v == IF x = b[j]
                  THEN above[j] + 1
                  ELSE IF above[j + 1] >= cur[j] THEN above[j + 1] ELSE cur[j]
         IN  LcsRow(above, x, b, Append(cur, v))

RECURSIVE LcsRows(_, _, _, _)
LcsRows(a, b, i, above) ==
    \* (a row is never empty: it is filled in before the next one is started)
    IF i > Len(a) \/ above = <<>> THEN above[Len(b) + 1]
    ELSE LcsRows(a, b, i + 1, LcsRow(above, a[i], b, <<0>>))

\* length of a longest common subsequence of a and b
Lcs(a, b) == LcsRows(a, b, 1, [j \in 1..(Len(b) + 1) |-> 0])

\* fuzzy.Ratio(s1, s2): round(100 * (lenSum - editDistance) / lenSum) with the
\* edit distance that counts a substitution as two edits, i.e.
\* lenSum - editDistance = 2 * Lcs; 0 for two empty strings
Ratio(s1, s2) ==
    LET lenSum == Len(s1) + Len(s2)
    IN  IF lenSum = 0 THEN 0
        ELSE (400 * Lcs(s1, s2) + lenSum) \div (2 * lenSum)

\* ConsiderSame(left, right, threshold)
ConsiderSame(left, right, threshold) ==
    Ratio(normalize(left), normalize(right)) >= threshold


(***************************************************************************)
(* ExtendParentStops.Run (extendparentstops.go:119-259)                    *)
(*                                                                         *)
(* feed.Stops maps ids to *gtfs.Stop. A stop is a record of the fields Run *)
(* reads or writes; a pointer to a stop is the id under which feed.Stops   *)
(* holds it, <<id>>, and <<>> is the nil pointer. The ranges over          *)
(* feed.Stops and uf.parent visit the keys in any order: one action per    *)
(* iteration, todo holding the keys still to visit. A key inserted while   *)
(* feed.Stops is ranged over may or may not be visited; the records Run    *)
(* inserts have Location_type 1 and no parent, and both loops that insert  *)
(* leave such a record alone, so todo holds the keys present at the start  *)
(* of the loop.                                                            *)
(***************************************************************************)
NilStop == <<>>

\* the id of the stop itself, without the prefix
ParIdPlain(id) == id

\* "par::" + id
ParId(id) == "par::" \o id

\* createParentStopFrom that makes the record a stop (location type 0)
createParentStopAsStop(orig, id) ==
    [Id |-> id, Name |-> orig.Name, Lat |-> orig.Lat, Lon |-> orig.Lon,
     Location_type |-> 0, Parent_station |-> NilStop,
     Timezone |-> orig.Timezone]

\* createParentStopFrom that copies the Parent_station of orig as well
createParentStopKeepParent(orig, id) ==
    [Id |-> id, Name |-> orig.Name, Lat |-> orig.Lat, Lon |-> orig.Lon,
     Location_type |-> 1, Parent_station |-> orig.Parent_station,
     Timezone |-> orig.Timezone]

\* createParentStopFrom(orig, id)
createParentStopFrom(orig, id) ==
    [Id |-> id, Name |-> orig.Name, Lat |-> orig.Lat, Lon |-> orig.Lon,
     Location_type |-> 1, Parent_station |-> NilStop,
     Timezone |-> orig.Timezone]

\* Point[*gtfs.Stop]{Lat: float64(s.Lat), Lon: float64(s.Lon), Data: s}
PointOf(s) == [Lat |-> s.Lat, Lon |-> s.Lon, Data |-> s.Id]

\* BuildKDTreeParallelLimited(points, 0): the build split across worker
\* tasks, with the median-selection rule of BuildKDTree
BuildKDTreeParallelLimited(pts, depth) == BuildKDTree(pts, depth)

\* the pairs of stop names for which the propose loop's test
\* ConsiderSame(norm, normalize(o.Name), TOL_IS_SAME), norm = normalize(s.Name),
\* is true
SameNames ==
    UNION {IF ConsiderSame(normalize(Runes[p[1]]), normalize(Runes[p[2]]),
                           TOL_IS_SAME)
           THEN {p} ELSE {} : p \in RunNames \X RunNames}

\* the inner loop of the propose loop for the stop s: the union-find after
\* uf.UnionSet(s.Id, o.Id) for the results p, o = p.Data, in their order
RECURSIVE UnionResults(_, _, _, _)
UnionResults(u, st, s, res) ==
    IF res = <<>> THEN u
    ELSE LET o == st[Head(res).Data]
             u1 == IF <<s.Name, o.Name>> \in SameNames
                   THEN UnionSetOn(u, s.Id, o.Id)
                   ELSE u
         IN  UnionResults(u1, st, s, Tail(res))

\* one iteration of the remap loop without the creation of the record
RemapStopNoCreate(st, id) ==
    LET stop == st[id]
    IN  IF stop.Parent_station # NilStop
        THEN LET parID == ParId(stop.Parent_station[1])
             IN  [st EXCEPT ![id].Parent_station = <<parID>>]
        ELSE st

\* one iteration of the remap loop (lines 154-162) on feed.Stops = st
RemapStop(st, id) ==
    LET stop == st[id]
    IN  IF stop.Parent_station # NilStop
        THEN LET parID == ParId(stop.Parent_station[1])
                 st1 == IF parID \notin DOMAIN st
                        THEN MapPut(st, parID, createParentStopFrom(stop, parID))
                        ELSE st
             IN  [st1 EXCEPT ![id].Parent_station = <<parID>>]
        ELSE st

\* the callback storing a record under parID whether or not the id is taken
ApplyCallbackOverwrite(st, key, root) ==
    LET parID == ParId(root)
        st1 == MapPut(st, parID, createParentStopFrom(st[root], parID))
    IN  [st1 EXCEPT ![key].Parent_station = <<parID>>]

\* the callback without the assignment to stop.Parent_station
ApplyCallbackCreateOnly(st, key, root) ==
    LET parID == ParId(root)
    IN  IF parID \notin DOMAIN st
        THEN MapPut(st, parID, createParentStopFrom(st[root], parID))
        ELSE st

\* the callback of uf.Apply (lines 230-239) on feed.Stops = st, called with
\* (key, parent = root)
ApplyCallback(st, key, root) ==
    LET parID == ParId(root)
        st1 == IF parID \notin DOMAIN st
               THEN MapPut(st, parID, createParentStopFrom(st[root], parID))
               ELSE st
    IN  [st1 EXCEPT ![key].Parent_station = <<parID>>]

\* one iteration of the backfill loop (lines 243-250) on feed.Stops = st
BackfillStop(st, id) ==
    LET stop == st[id]
    IN  IF stop.Location_type = 0 /\ stop.Parent_station = NilStop
        THEN LET parID == ParId(stop.Id)
                 st1 == IF parID \notin DOMAIN st
                        THEN MapPut(st, parID, createParentStopFrom(stop, parID))
                        ELSE st
             IN  [st1 EXCEPT ![id].Parent_station = <<parID>>]
        ELSE st

\* for _, s := range feed.Stops { points = append(points, ...); uf.InitKey(s.Id) }
Register(id) ==
    /\ pc = "register" /\ id \in todo
    /\ points' = Append(points, PointOf(stops[id]))
    /\ SetUF(InitKeyOn(UFState, id))
    /\ todo' = todo \ {id}
    /\ UNCHANGED <<textVars, headVars, op, chain, kdVars, stops, stops0, pc, prev, after, run>>

\* root := BuildKDTreeParallelLimited(points, 0); the slice points is not
\* read again
BuildIndex ==
    /\ pc = "register" /\ todo = {}
    /\ tree' = BuildKDTreeParallelLimited(points, 0)
    /\ points' = <<>>
    /\ pc' = "seed"
    /\ todo' = DOMAIN stops
    /\ UNCHANGED <<textVars, headVars, ufVars, op, chain, stored, query, results,
                   stops, stops0, prev, after, run>>

\* if s.Parent_station != nil { uf.UnionSet(s.Id, s.Parent_station.Id) }
Seed(id) ==
    /\ pc = "seed" /\ id \in todo
    /\ IF stops[id].Parent_station # NilStop
       THEN SetUF(UnionSetOn(UFState, id, stops[id].Parent_station[1]))
       ELSE UNCHANGED ufVars
    /\ todo' = todo \ {id}
    /\ UNCHANGED <<textVars, headVars, op, chain, kdVars, stops, stops0, pc, points, prev, after, run>>

\* prev := uf.NumDisjointSets()
EndSeed ==
    /\ pc = "seed" /\ todo = {}
    /\ prev' = numSets
    /\ pc' = "propose"
    /\ todo' = DOMAIN stops
    /\ UNCHANGED <<textVars, headVars, ufVars, op, chain, kdVars, stops, stops0, points, after, run>>

\* one iteration of the propose loop (lines 139-151)
Propose(id) ==
    /\ pc = "propose" /\ id \in todo
    /\ LET s == stops[id]
           res == SearchRange(tree, PointOf(s), RadiusHalfKm, 0, <<>>)
       IN  SetUF(UnionResults(UFState, stops, s, res))
    /\ todo' = todo \ {id}
    /\ UNCHANGED <<textVars, headVars, op, chain, kdVars, stops, stops0, pc, points, prev, after, run>>

EndPropose ==
    /\ pc = "propose" /\ todo = {}
    /\ pc' = "remap"
    /\ todo' = DOMAIN stops
    /\ UNCHANGED <<textVars, headVars, ufVars, op, chain, kdVars, stops, stops0, points, prev, after, run>>

\* one iteration of the remap loop (lines 154-162)
Remap(id) ==
    /\ pc = "remap" /\ id \in todo
    /\ stops' = RemapStop(stops, id)
    /\ todo' = todo \ {id}
    /\ UNCHANGED <<textVars, headVars, ufVars, op, chain, kdVars, stops0, pc, points, prev, after, run>>

\* uf.Apply starts to range over uf.parent
EndRemap ==
    /\ pc = "remap" /\ todo = {}
    /\ pc' = "apply"
    /\ todo' = DOMAIN parent
    /\ UNCHANGED <<textVars, headVars, ufVars, op, chain, kdVars, stops, stops0, points, prev, after, run>>

\* one iteration of uf.Apply: parent := uf.FindSet(key); f(key, parent)
ApplyKey(key) ==
    /\ pc = "apply" /\ key \in todo
    /\ parent' = FindSet(parent, key).parent
    /\ stops' = ApplyCallback(stops, key, FindSet(parent, key).root)
    /\ todo' = todo \ {key}
    /\ UNCHANGED <<textVars, headVars, rank, size, numSets, isPreferredParent, op, chain, kdVars,
                   stops0, pc, points, prev, after, run>>

EndApply ==
    /\ pc = "apply" /\ todo = {}
    /\ pc' = "backfill"
    /\ todo' = DOMAIN stops
    /\ UNCHANGED <<textVars, headVars, ufVars, op, chain, kdVars, stops, stops0, points, prev, after, run>>

\* the backfill loop (lines 243-250) over the keys ks. An iteration reads and
\* writes the stop it visits and inserts "par::" + its id only; it skips the
\* stops of Location_type 1, which the inserted records are. The iterations
\* on different stops therefore commute and every order ends in the same
\* feed: the loop is folded in one of the orders.
RECURSIVE BackfillAll(_, _)
BackfillAll(st, ks) ==
    IF ks = {} THEN st
    ELSE LET k == CHOOSE k \in ks : TRUE
         IN  BackfillAll(BackfillStop(st, k), ks \ {k})

\* for _, stop := range feed.Stops { ... } (lines 243-250)
Backfill ==
    /\ pc = "backfill" /\ todo # {}
    /\ stops' = BackfillAll(stops, todo)
    /\ todo' = {}
    /\ UNCHANGED <<textVars, headVars, ufVars, op, chain, kdVars, stops0, pc, points, prev, after, run>>

\* after := uf.NumDisjointSets(); Run returns
Finish ==
    /\ pc = "backfill" /\ todo = {}
    /\ after' = numSets
    /\ pc' = "done"
    /\ UNCHANGED <<textVars, headVars, ufVars, op, chain, kdVars, stops, stops0, points, prev, run, todo>>

\* NewUnionFind[string]()
NewUnionFind ==
    [parent |-> EmptyMap, rank |-> EmptyMap, size |-> EmptyMap,
     numSets |-> 0, isPreferredParent |-> EmptyMap]

\* number of stops of the feeds Run is started on
MaxStops == 3

\* number of stops of the feeds Run is run on a second time
MaxRerunStops == 1

\* Run is called again on the feed it has produced
Rerun ==
    /\ pc = "done" /\ run = 1
    /\ Cardinality(DOMAIN stops0) <= MaxRerunStops
    /\ run' = 2
    /\ stops0' = stops
    /\ SetUF(NewUnionFind)
    /\ tree' = Nil
    /\ pc' = "register"
    /\ todo' = DOMAIN stops
    /\ prev' = 0
    /\ after' = 0
    /\ UNCHANGED <<textVars, headVars, op, chain, stored, query, results, stops, points>>

\* a gtfs.Stop, Location_type still to be set
Stop(id, name, lat, lon, par) ==
    [Id |-> id, Name |-> name, Lat |-> lat, Lon |-> lon, Location_type |-> 0,
     Parent_station |-> par, Timezone |-> "Europe/Berlin"]

\* what the stops after the first one are: at the place of the first stop
\* under a name considered the same, under the same name at the opposite
\* meridian, or at the same place under another name
Kinds ==
    {[Name |-> "Ulm Bf (tief)", Lat |-> 0, Lon |-> 0],
     [Name |-> "Ulm Bahnhof", Lat |-> 0, Lon |-> 180],
     [Name |-> "Ulm Sued", Lat |-> 0, Lon |-> 0]}

\* the n-th stop of a feed: its parent station is nil or an earlier stop
StopsAt(n) ==
    IF n = 1
    THEN {Stop(AllKeys[1], "Ulm Bahnhof", 0, 0, NilStop)}
    ELSE {Stop(AllKeys[n], k.Name, k.Lat, k.Lon, par) :
            k \in Kinds, par \in {NilStop} \cup {<<AllKeys[i]>> : i \in 1..(n - 1)}}

\* location_type as GTFS gives it: 1 for a station (a parent without a
\* parent), 4 for a boarding area (the child of a stop that has a parent),
\* 0 for a stop or platform
LocationType(f, id) ==
    IF f[id].Parent_station = NilStop
    THEN IF \E k \in DOMAIN f : f[k].Parent_station = <<id>> THEN 1 ELSE 0
    ELSE IF f[f[id].Parent_station[1]].Parent_station # NilStop THEN 4 ELSE 0

Typed(f) == [id \in DOMAIN f |-> [f[id] EXCEPT !.Location_type = LocationType(f, id)]]

RECURSIVE FeedsOf(_)
FeedsOf(n) ==
    IF n = 0 THEN {EmptyMap}
    ELSE {MapPut(f, s.Id, s) : f \in FeedsOf(n - 1), s \in StopsAt(n)}

\* the feeds of n stops
Feeds(n) == {Typed(f) : f \in FeedsOf(n)}

\* six stops without parents: a, b, c on the equator at the longitudes -180,
\* 0 and 180, a and c under names considered the same; d, e, f at 60 north
LineFeed ==
    Typed(("a" :> Stop("a", "Ulm Bahnhof", 0, -180, NilStop))
       @@ ("b" :> Stop("b", "Ulm Sued", 0, 0, NilStop))
       @@ ("c" :> Stop("c", "Ulm Bf (tief)", 0, 180, NilStop))
       @@ ("d" :> Stop("d", "Ulm Sued", 60, 0, NilStop))
       @@ ("e" :> Stop("e", "Ulm Sued", 60, 180, NilStop))
       @@ ("f" :> Stop("f", "Ulm Bahnhof", 60, 0, NilStop)))

\* Run has been called on feed.Stops = stops: uf := NewUnionFind(),
\* points := make(...), the first range about to start
RunStart ==
    /\ stops0 = stops
    /\ pc = "register"
    /\ todo = DOMAIN stops
    /\ points = <<>>
    /\ prev = 0
    /\ after = 0
    /\ run = 1
    /\ UFIdle
    /\ KDIdle
    /\ TextIdle
    /\ HeadIdle

InitRun ==
    /\ \E n \in 0..MaxStops : stops \in Feeds(n)
    /\ RunStart

InitRunLine ==
    /\ stops = LineFeed
    /\ RunStart

\* the steps of one call of Run
NextRunOnce ==
    \/ \E id \in DOMAIN stops : Register(id)
    \/ BuildIndex
    \/ \E id \in DOMAIN stops : Seed(id)
    \/ EndSeed
    \/ \E id \in DOMAIN stops : Propose(id)
    \/ EndPropose
    \/ \E id \in DOMAIN stops : Remap(id)
    \/ EndRemap
    \/ \E key \in DOMAIN parent : ApplyKey(key)
    \/ EndApply
    \/ Backfill
    \/ Finish

NextRun ==
    \/ NextRunOnce
    \/ Rerun

SpecRun == InitRun /\ [][NextRun]_vars

SpecRunLine == InitRunLine /\ [][NextRunOnce]_vars


\* the feeds of two stops in which the id of the second stop is "par::" + the
\* id of the first one, with or without a parent_station reference to it
ParFeeds ==
    {Typed((AllKeys[1] :> Stop(AllKeys[1], "Ulm Bahnhof", 0, 0, par))
        @@ (ParId(AllKeys[1]) :> Stop(ParId(AllKeys[1]), k.Name, k.Lat, k.Lon, NilStop))) :
        k \in Kinds, par \in {NilStop, <<ParId(AllKeys[1])>>}}

InitRunPar ==
    /\ stops \in ParFeeds
    /\ RunStart

SpecRunPar == InitRunPar /\ [][NextRunOnce]_vars


(***************************************************************************)
(* The union-find called with any id, registered by InitKey or not. The    *)
(* ids registered by InitKey are the keys of chain.                        *)
(***************************************************************************)
Initialized == DOMAIN chain

\* uf.FindSet(i), i any id
FindSetAny(i) ==
    /\ parent' = FindSet(parent, i).parent
    /\ op' = Call("FindSet", i, FindSet(parent, i).root)
    /\ UNCHANGED <<rank, size, numSets, isPreferredParent, chain, kdVars, runVars, textVars, headVars>>

\* uf.UnionSet(x, y), x and y any ids
UnionSetAny(x, y) ==
    /\ SetUF(UnionSetOn(UFState, x, y))
    /\ op' = Call("UnionSet", x, y)
    /\ UNCHANGED <<chain, kdVars, runVars, textVars, headVars>>

NextUFAny ==
    \/ \E k \in Keys : InitKey(k)
    \/ \E k \in Keys : FindSetAny(k)
    \/ \E x, y \in Keys : UnionSetAny(x, y)

SpecUFAny == InitUF /\ [][NextUFAny]_vars

\* Run on any of the feeds above, and again on the feed it has produced
InitRunAny == InitRun \/ InitRunPar

SpecRunAny == InitRunAny /\ [][NextRun]_vars

(***************************************************************************)
(* The text functions evaluated on their own. `for k, v := range           *)
(* replacements` visits the entries of a Go map in an order the language   *)
(* leaves open and that changes from one evaluation to the next: every     *)
(* evaluation of normalize takes its order from Orders.                    *)
(***************************************************************************)
\* the names the text functions are evaluated on
TextNames == DOMAIN Runes

Reverse(s) == [i \in 1..Len(s) |-> s[Len(s) + 1 - i]]

\* orders in which the replacement map is ranged over
Orders == {SourceOrder, Reverse(SourceOrder)}

Thresholds == {TOL_IS_SAME, 100}

\* ConsiderSame(left, right, threshold) when the two evaluations of normalize
\* range over the replacement map in the orders o1 and o2
ConsiderSameIn(left, right, threshold, o1, o2) ==
    Ratio(normalizeIn(left, o1), normalizeIn(right, o2)) >= threshold

\* a call of normalize or ConsiderSame about to be evaluated: its arguments
\* and the orders its evaluations of normalize will range over the map in
TextCalls ==
    [call : {"normalize"}, left : TextNames, right : {""}, threshold : {0},
     orders : {<<o>> : o \in Orders}, done : {FALSE}, result : {<<>>}]
    \cup
    [call : {"ConsiderSame"}, left : TextNames, right : TextNames,
     threshold : Thresholds, orders : Orders \X Orders, done : {FALSE},
     result : {<<>>}]

\* normalize(name)
Normalize ==
    /\ text.call = "normalize" /\ ~text.done
    /\ text' = [text EXCEPT !.done = TRUE,
                            !.result = normalizeIn(Runes[text.left],
                                                   text.orders[1])]
    /\ UNCHANGED <<ufVars, op, chain, kdVars, runVars, headVars>>

\* ConsiderSame(left, right, threshold)
Consider ==
    /\ text.call = "ConsiderSame" /\ ~text.done
    /\ text' = [text EXCEPT !.done = TRUE,
                            !.result = ConsiderSameIn(Runes[text.left],
                                                      Runes[text.right],
                                                      text.threshold,
                                                      text.orders[1],
                                                      text.orders[2])]
    /\ UNCHANGED <<ufVars, op, chain, kdVars, runVars, headVars>>

InitText ==
    /\ text \in TextCalls
    /\ HeadIdle
    /\ UFIdle
    /\ KDIdle
    /\ RunIdle

NextText ==
    \/ Normalize
    \/ Consider

SpecText == InitText /\ [][NextText]_vars

(***************************************************************************)
(* Run on the degenerate feeds: no stop, one stop, all stops at one place. *)
(***************************************************************************)
Coincident(f) ==
    \A x \in DOMAIN f : \A y \in DOMAIN f :
        f[x].Lat = f[y].Lat /\ f[x].Lon = f[y].Lon

\* number of stops of the feeds whose stops are all at one place
MaxCoincident == 2

DegenerateFeeds ==
    UNION {{f \in Feeds(n) : Coincident(f)} : n \in 0..MaxCoincident}

InitRunDegenerate ==
    /\ stops \in DegenerateFeeds
    /\ RunStart

SpecRunDegenerate == InitRunDegenerate /\ [][NextRunOnce]_vars

\* number of points of the slices the index is built from and then searched
MaxBuilt == 4

\* root := BuildKDTree(points, 0) has been called on a slice of MaxBuilt points
InitKDBuilt ==
    /\ stored \in PointSeqs(MaxBuilt)
    /\ tree = BuildKDTree(stored, 0)
    /\ query = <<>>
    /\ results = <<>>
    /\ UFIdle
    /\ RunIdle
    /\ TextIdle
    /\ HeadIdle

\* the built index is searched, and searched again
SpecKDBuilt == InitKDBuilt /\ [][Search]_vars

(***************************************************************************)
(* Run followed step by step to its end on the feeds of up to              *)
(* MaxTerminating stops and on those in which a "par::" id is taken.       *)
(***************************************************************************)
\* number of stops of the feeds on which every step of Run is followed
MaxTerminating == 2

InitRunToEnd ==
    /\ \/ \E n \in 0..MaxTerminating : stops \in Feeds(n)
       \/ stops \in ParFeeds
    /\ RunStart

SpecRunToEnd == InitRunToEnd /\ [][NextRunOnce]_vars

(***************************************************************************)
(* ExtendTripHeadSign.Run. The goroutine version (src/unnamed/part_001:    *)
(* 20-47) is a state machine: Run ranges over feed.Trips in the order of   *)
(* the map, and a goroutine is at its body (line 41), at the deferred      *)
(* receive from sem (line 39) or at the deferred wg.Done (line 38). The    *)
(* sequential version (src/processors/extendtripheadsigns.go:18-31) is the *)
(* operator RunSequential. A Headsign is the string it points to; a stop   *)
(* time is the name of its stop.                                           *)
(***************************************************************************)
MaxTrips == 2
MaxStopTimes == 2
MaxThreads == 2

AllTrips == <<"t1", "t2", "t3", "t4">>
StopNames == <<"A", "B", "C", "D">>
Headsigns == {"", "H"}

TripRecords ==
    [Headsign : Headsigns,
     StopTimes : {SubSeq(StopNames, 1, n) : n \in 0..MaxStopTimes}]

TripFeeds ==
    UNION {[{AllTrips[i] : i \in 1..n} -> TripRecords] : n \in 0..MaxTrips}

\* trip.StopTimes[len(trip.StopTimes)-1] is out of range
IndexOutOfRange(t) == Len(t.StopTimes) = 0

\* t.Headsign = &t.StopTimes[len(t.StopTimes)-1].Stop().Name
LastStopName(t) == t.StopTimes[Len(t.StopTimes)]

\* the body of the loop of the sequential version on one trip
ExtendHeadsign(t) ==
    IF t.Headsign # "" THEN t
    ELSE [t EXCEPT !.Headsign = LastStopName(t)]

\* the sequential version panics on the feed f
SequentialPanics(f) ==
    \E id \in DOMAIN f : f[id].Headsign = "" /\ IndexOutOfRange(f[id])

\* feed.Trips after the sequential version has returned on a feed on which
\* it does not panic
RunSequential(f) == [id \in DOMAIN f |-> ExtendHeadsign(f[id])]

InitHead ==
    /\ trips \in TripFeeds
    /\ trips0 = trips
    /\ hsPc = "loop"
    /\ hsTodo = DOMAIN trips
    /\ sem = 0
    /\ maxThreads \in 1..MaxThreads
    /\ wg = 0
    /\ workers = [id \in DOMAIN trips |-> "none"]
    /\ UFIdle
    /\ KDIdle
    /\ RunIdle
    /\ TextIdle

\* lines 29-31: the headsign is present, continue
Skip(id) ==
    /\ hsPc = "loop"
    /\ id \in hsTodo
    /\ trips[id].Headsign # ""
    /\ hsTodo' = hsTodo \ {id}
    /\ UNCHANGED <<trips, trips0, hsPc, sem, maxThreads, wg, workers,
                   ufVars, op, chain, kdVars, runVars, textVars>>

\* lines 33-42: the send on sem blocks while the channel is full; then
\* wg.Add(1) and the go statement
Launch(id) ==
    /\ hsPc = "loop"
    /\ id \in hsTodo
    /\ trips[id].Headsign = ""
    /\ sem < maxThreads
    /\ sem' = sem + 1
    /\ wg' = wg + 1
    /\ workers' = [workers EXCEPT ![id] = "body"]
    /\ hsTodo' = hsTodo \ {id}
    /\ UNCHANGED <<trips, trips0, hsPc, maxThreads,
                   ufVars, op, chain, kdVars, runVars, textVars>>

\* line 41 in the goroutine of the trip id; the index expression panics on
\* a trip without stop times, and a panic in a goroutine ends the program
WorkerBody(id) ==
    /\ hsPc # "panicked"
    /\ id \in DOMAIN workers
    /\ workers[id] = "body"
    /\ IF IndexOutOfRange(trips[id])
       THEN /\ hsPc' = "panicked"
            /\ UNCHANGED <<trips, workers>>
       ELSE /\ trips' = [trips EXCEPT ![id].Headsign = LastStopName(trips[id])]
            /\ workers' = [workers EXCEPT ![id] = "release"]
            /\ UNCHANGED hsPc
    /\ UNCHANGED <<trips0, hsTodo, sem, maxThreads, wg,
                   ufVars, op, chain, kdVars, runVars, textVars>>

\* line 39: the deferred function registered last runs first, <-sem
WorkerRelease(id) ==
    /\ hsPc # "panicked"
    /\ id \in DOMAIN workers
    /\ workers[id] = "release"
    /\ sem > 0
    /\ sem' = sem - 1
    /\ workers' = [workers EXCEPT ![id] = "done"]
    /\ UNCHANGED <<trips, trips0, hsPc, hsTodo, maxThreads, wg,
                   ufVars, op, chain, kdVars, runVars, textVars>>

\* line 38: the deferred wg.Done(), after which the goroutine has ended
WorkerDone(id) ==
    /\ hsPc # "panicked"
    /\ id \in DOMAIN workers
    /\ workers[id] = "done"
    /\ wg' = wg - 1
    /\ workers' = [workers EXCEPT ![id] = "exited"]
    /\ UNCHANGED <<trips, trips0, hsPc, hsTodo, sem, maxThreads,
                   ufVars, op, chain, kdVars, runVars, textVars>>

\* line 45: after the loop wg.Wait() blocks until the counter is zero;
\* then Run returns
Wait ==
    /\ hsPc = "loop"
    /\ hsTodo = {}
    /\ wg = 0
    /\ hsPc' = "returned"
    /\ UNCHANGED <<trips, trips0, hsTodo, sem, maxThreads, wg, workers,
                   ufVars, op, chain, kdVars, runVars, textVars>>

NextHead ==
    \/ \E id \in DOMAIN trips : Skip(id)
    \/ \E id \in DOMAIN trips : Launch(id)
    \/ \E id \in DOMAIN trips : WorkerBody(id)
    \/ \E id \in DOMAIN trips : WorkerRelease(id)
    \/ \E id \in DOMAIN trips : WorkerDone(id)
    \/ Wait

SpecHead == InitHead /\ [][NextHead]_vars

(***************************************************************************)
(* Properties of the union-find (checked under SpecUF)                     *)
(***************************************************************************)
IsRoot(p, k) == k \in DOMAIN p /\ p[k] = k

Preferred(k) == MapGet(isPreferredParent, k, FALSE)

IsUnion(o) == o.name = "UnionSet"

\* C1: after any sequence of UnionSet calls on registered ids, with FindSet
\* (and the other reading calls) interleaved anywhere, FindSet(a) = FindSet(b)
\* exactly when a and b are connected by a chain of the UnionSet calls made
\* so far.
C1_FindIffChained ==
    \A a \in Registered : \A b \in Registered :
        (Root(parent, a) = Root(parent, b)) <=> (b \in chain[a])

\* a FindSet call has just run on a forest in which two ids are chained and a
\* third one is apart
C1_Witness ==
    /\ op.name = "FindSet"
    /\ \E a \in Registered : \E b \in Registered : \E c \in Registered :
          /\ a # b /\ b # c /\ a # c
          /\ b \in chain[a]
          /\ c \notin chain[a]
          /\ Root(parent, a) = Root(parent, b)
          /\ Root(parent, c) # Root(parent, a)

\* C2 as stated: on every UnionSet, a root that is flagged preferred stays
\* the root of every member of its (merged) set, also when the other root is
\* flagged preferred too.
C2_PreferredAlwaysSurvives ==
    [][IsUnion(op') =>
         \A r \in Registered :
            (IsRoot(parent, r) /\ Preferred(r)) =>
                \A m \in chain'[r] : Root(parent', m) = r]_vars

\* C2 amended: on every UnionSet, a root r that is flagged preferred stays
\* the root of every member of its (merged) set, unless the call merges r's
\* set with another set whose root is flagged preferred as well.
C2_PreferredSurvivesUnpreferred ==
    [][IsUnion(op') =>
         LET xRoot == Root(parent, op'.x)
             yRoot == Root(parent, op'.y)
         IN  \A r \in Registered :
                (/\ IsRoot(parent, r) /\ Preferred(r)
                 /\ ~(/\ xRoot # yRoot
                      /\ r \in {xRoot, yRoot}
                      /\ Preferred(xRoot) /\ Preferred(yRoot)))
                => \A m \in chain'[r] : Root(parent', m) = r]_vars

\* a preferred root has survived a chain of two merges, the last one against
\* a root of strictly higher rank
C2_Witness ==
    /\ op.name = "UnionSet"
    /\ \E r \in Registered :
          /\ IsRoot(parent, r) /\ Preferred(r)
          /\ Cardinality(chain[r]) >= 3
          /\ \E l \in chain[r] : l # r /\ parent[l] = r /\ ~Preferred(l)
                                 /\ rank[l] > rank[r]

\* C8: InitKey adds one to the set count, a UnionSet of two ids with
\* different roots takes exactly one off, a UnionSet within one set and the
\* calls FindSet, IsSameSet, SizeOfSet, Apply (and MarkAsParent) leave it as
\* it is; so the count always equals the number of ids k with parent[k] = k.
C8_SetCount ==
    /\ [](numSets = Cardinality({k \in Registered : parent[k] = k}))
    /\ [][/\ op'.name = "InitKey" => numSets' = numSets + 1
          /\ (IsUnion(op') /\ Root(parent, op'.x) # Root(parent, op'.y))
                => numSets' = numSets - 1
          /\ (IsUnion(op') /\ Root(parent, op'.x) = Root(parent, op'.y))
                => numSets' = numSets
          /\ op'.name \in {"FindSet", "IsSameSet", "SizeOfSet", "Apply", "MarkAsParent"}
                => numSets' = numSets]_vars

\* a UnionSet within one set has just run while several sets are left
C8_Witness ==
    /\ op.name = "UnionSet"
    /\ op.x # op.y
    /\ Root(parent, op.x) = Root(parent, op.y)
    /\ numSets >= 2
    /\ numSets < Cardinality(Registered)

\* C9: in a UnionSet of two different roots of which exactly one is flagged
\* preferred, that root becomes the parent of the other whatever the ranks,
\* and its size becomes the sum of the two sizes.
C9_ExactlyOnePreferred ==
    [][IsUnion(op') =>
         LET xRoot == Root(parent, op'.x)
             yRoot == Root(parent, op'.y)
         IN  \A w \in {xRoot, yRoot} : \A l \in {xRoot, yRoot} :
                (w # l /\ Preferred(w) /\ ~Preferred(l)) =>
                    /\ parent'[l] = w
                    /\ parent'[w] = w
                    /\ size'[w] = size[w] + size[l]
                    /\ rank' = rank]_vars

\* the preferred root of strictly lower rank has just become the parent
C9_Witness ==
    /\ op.name = "UnionSet"
    /\ \E w \in Registered : \E l \in Registered :
          /\ w # l
          /\ Preferred(w) /\ ~Preferred(l)
          /\ parent[l] = w /\ parent[w] = w
          /\ rank[w] < rank[l]
          /\ Root(parent, op.x) = w /\ Root(parent, op.y) = w

(***************************************************************************)
(* Properties of the spatial index (checked under SpecKD)                  *)
(***************************************************************************)
Searched == query # <<>>

\* how often the point p occurs in the sequence s
Count(s, p) == Cardinality({i \in 1..Len(s) : s[i] = p})

\* the stored points a linear scan with Haversine finds within the radius
LinearSearch == SelectSeq(stored, LAMBDA p : WithinRadius(query, p, query.radius))

\* C3: SearchRange returns every stored point whose haversine distance to the
\* query is <= radiusKm, for every tree made by BuildKDTree and Insert from
\* depth 0, every query and every radius.
C3_NoFalseNegatives ==
    Searched => \A i \in 1..Len(stored) :
                   WithinRadius(query, stored[i], query.radius)
                       => Count(results, stored[i]) >= 1

\* C10: the points SearchRange appends are stored points within the radius,
\* each at most as often as it is stored.
C10_NoFalsePositives ==
    Searched => \A i \in 1..Len(results) :
                   /\ WithinRadius(query, results[i], query.radius)
                   /\ Count(results, results[i]) <= Count(stored, results[i])

\* a search has returned some of the stored points and left others out
C10_Witness ==
    /\ Searched
    /\ Len(stored) = MaxPoints
    /\ Len(results) >= 2
    /\ Len(results) < Len(stored)
    /\ Len(results) = Len(LinearSearch)

\* C20: BuildKDTree on an empty slice returns the nil index, and SearchRange
\* on the nil index appends nothing: the result sequence of the caller, empty
\* or not, is what it was.
C20_EmptyIndex ==
    /\ stored = <<>> => tree = Nil
    /\ (Searched /\ tree = Nil) =>
          /\ results = <<>>
          /\ SearchRange(tree, query, query.radius, 0, <<query>>) = <<query>>

\* the index built from an empty slice has been searched
C20_Witness ==
    /\ Searched
    /\ stored = <<>>
    /\ tree = Nil
    /\ results = <<>>

(***************************************************************************)
(* Properties of ExtendParentStops.Run (checked under SpecRun, SpecRunLine)*)
(***************************************************************************)
Returned == pc = "done"

\* the ids Run has inserted into feed.Stops
NewIds == DOMAIN stops \ DOMAIN stops0

\* C4: when Run returns, every stop that was in feed.Stops when Run started
\* has a non-nil Parent_station, whatever its location type and whether or
\* not it had a parent before.
C4_TotalParentCoverage ==
    Returned => \A id \in DOMAIN stops0 :
                   /\ id \in DOMAIN stops
                   /\ stops[id].Parent_station # NilStop
                   /\ stops[id].Parent_station[1] \in DOMAIN stops

\* Run has returned on a feed with a station (no parent before, location
\* type 1), one of its children and a stop of location type 0 without parent
C4_Witness ==
    /\ Returned
    /\ \E p, c, s \in DOMAIN stops0 :
          /\ stops0[p].Location_type = 1 /\ stops0[p].Parent_station = NilStop
          /\ stops0[c].Parent_station = <<p>>
          /\ stops0[s].Location_type = 0 /\ stops0[s].Parent_station = NilStop
          /\ stops[p].Parent_station # NilStop
          /\ stops[c].Parent_station # NilStop
          /\ stops[s].Parent_station # NilStop

\* C5: a second Run on the feed produced by a first Run adds no record to
\* feed.Stops: the set of stop ids is the same after the second run as after
\* the first.
C5_SecondRunAddsNoRecord ==
    (Returned /\ run = 2) => DOMAIN stops = DOMAIN stops0

\* C6: during one Run at most one new "par::" record is inserted per cluster
\* (set of stop ids sharing a union-find root once the unions have settled),
\* so the number of records added never exceeds the number of clusters.
C6_AtMostOnePerCluster ==
    Returned =>
        /\ \A x, y \in DOMAIN stops0 :
              (x # y /\ ParId(x) \in NewIds /\ ParId(y) \in NewIds)
                  => Root(parent, x) # Root(parent, y)
        /\ Cardinality(NewIds) <= numSets

\* the pairs of stop names for which ConsiderSame(name, name, TOL_IS_SAME)
\* is true
ConsideredSame ==
    UNION {IF ConsiderSame(Runes[p[1]], Runes[p[2]], TOL_IS_SAME)
           THEN {p} ELSE {} : p \in RunNames \X RunNames}

\* a link between two stops of the feed f: a parent_station reference, or
\* the one within radiusKm of the other under names considered the same
Linked(f, s, n) ==
    \/ f[s].Parent_station = <<n>>
    \/ f[n].Parent_station = <<s>>
    \/ /\ WithinRadius(PointOf(f[s]), PointOf(f[n]), RadiusHalfKm)
       /\ <<f[s].Name, f[n].Name>> \in ConsideredSame

\* the stops of f connected to those of the set c by a chain of links
RECURSIVE Chained(_, _)
Chained(f, c) ==
    LET more == c \cup {n \in DOMAIN f : \E s \in c : Linked(f, s, n)}
    IN  IF more = c THEN c ELSE Chained(f, more)

\* C7: after Run two input stops have the same Parent_station record iff they
\* are connected by a chain of links, a link being a pre-existing
\* parent_station reference or a pair of stops within radiusKm of each other
\* whose names ConsiderSame holds to be the same.
C7_ClusteringResult ==
    Returned => \A s, n \in DOMAIN stops0 :
                   (stops[s].Parent_station = stops[n].Parent_station)
                       <=> (n \in Chained(stops0, {s}))

\* the seed loop has finished and no neighbour query has been made
SeedFinished == pc = "propose" /\ todo = DOMAIN stops

\* C11: when the seed phase of Run has finished, every stop that references
\* a parent station is in the set of that parent and the root of the set is
\* flagged preferred.
C11_SeedMarksPreferred ==
    SeedFinished =>
        \A id \in DOMAIN stops :
            stops[id].Parent_station # NilStop =>
                /\ Root(parent, id) = Root(parent, stops[id].Parent_station[1])
                /\ Preferred(Root(parent, id))

\* C12: after Run the Parent_station of every input stop is the record under
\* "par::" + (union-find root of the stop), the same for all members of a
\* cluster, and that record was inserted by this run: it is no stop that was
\* in feed.Stops when Run started.
C12_CanonicalParentFresh ==
    Returned =>
        \A id \in DOMAIN stops0 :
            /\ stops[id].Parent_station = <<ParId(Root(parent, id))>>
            /\ ParId(Root(parent, id)) \in NewIds

\* C13: every record Run inserts under an id "par::" + x has location type 1
\* and the name, latitude, longitude and timezone of the stop whose id is x,
\* whichever of the remap loop, uf.Apply and the backfill loop inserted it.
C13_SyntheticParentContent ==
    \A x \in DOMAIN stops :
        ParId(x) \in NewIds =>
            /\ stops[ParId(x)].Id = ParId(x)
            /\ stops[ParId(x)].Location_type = 1
            /\ stops[ParId(x)].Name = stops[x].Name
            /\ stops[ParId(x)].Lat = stops[x].Lat
            /\ stops[ParId(x)].Lon = stops[x].Lon
            /\ stops[ParId(x)].Timezone = stops[x].Timezone

\* C14: the 'before' count Run reports is the number of disjoint sets before
\* any union of the seed loop, i.e. the number of registered stops, and the
\* 'after' count is the number of disjoint sets when canonicalization is done.
C14_BeforeAfterStatistic ==
    Returned =>
        /\ prev = Cardinality(DOMAIN stops0)
        /\ after = Cardinality({k \in DOMAIN parent : IsRoot(parent, k)})

\* the step is a call of FindSet or UnionSet with an id never registered
CallOnUninitialized ==
    \/ op'.name = "FindSet" /\ op'.x \notin Initialized
    \/ op'.name = "UnionSet" /\ (op'.x \notin Initialized \/ op'.y \notin Initialized)

\* C15: FindSet(id) and UnionSet(a, b) fail when an id involved was never
\* registered with InitKey: they change neither parent, rank, size nor the
\* set count (and return no root).
C15_UnregisteredIdsFatal ==
    [][CallOnUninitialized =>
          /\ parent' = parent /\ rank' = rank /\ size' = size
          /\ numSets' = numSets]_vars

\* C16: after MarkAsParent(id) the root of id's set is flagged preferred,
\* isPreferredParent[FindSet(id)] = true, both when id is a singleton and
\* when id has been merged under another root.
C16_MarkAsParentFlagsRoot ==
    op.name = "MarkAsParent" => Preferred(Root(parent, op.x))

\* C17: Run removes no record from feed.Stops and changes neither the id, the
\* name, the latitude, the longitude, the location type nor the timezone of
\* a stop that was there when Run started; it only inserts records whose id
\* is "par::" + an id and rewrites Parent_station fields.
C17_Frame ==
    /\ \A id \in DOMAIN stops0 :
          /\ id \in DOMAIN stops
          /\ [stops[id] EXCEPT !.Parent_station = NilStop]
                = [stops0[id] EXCEPT !.Parent_station = NilStop]
    /\ \A id \in NewIds : \E x \in DOMAIN stops : id = ParId(x)

\* Run has returned after inserting a record and replacing the parent
\* station a stop had before
C17_Witness ==
    /\ Returned
    /\ NewIds # {}
    /\ \E id \in DOMAIN stops0 :
          /\ stops0[id].Parent_station # NilStop
          /\ stops[id].Parent_station # stops0[id].Parent_station

(***************************************************************************)
(* Properties of the text functions (checked under SpecText)               *)
(***************************************************************************)
\* C18: two evaluations of normalize on the same string return the same
\* string, in whatever order the entries of the replacement map are applied:
\* every evaluation returns what the evaluation in the order of the source
\* returns.
C18_NormalizeDeterministic ==
    (text.call = "normalize" /\ text.done)
        => text.result = normalize(Runes[text.left])

\* C19: ConsiderSame is symmetric: for all names a, b and every threshold t,
\* ConsiderSame(a, b, t) = ConsiderSame(b, a, t), whichever orders the
\* evaluations of normalize range over the replacement map in.
C19_ConsiderSameSymmetric ==
    (text.call = "ConsiderSame" /\ text.done)
        => \A o1, o2 \in Orders :
              text.result = ConsiderSameIn(Runes[text.right], Runes[text.left],
                                           text.threshold, o1, o2)

\* the next step of Run dereferences a nil pointer: uf.Apply calls back with
\* a key or a root under which feed.Stops holds no stop (stop.Parent_station
\* of a nil stop, orig.Name of a nil orig)
NilDereference ==
    /\ pc = "apply"
    /\ \E key \in todo :
          \/ key \notin DOMAIN stops
          \/ /\ ParId(Root(parent, key)) \notin DOMAIN stops
             /\ Root(parent, key) \notin DOMAIN stops

\* the steps of Run other than an iteration of the propose loop
OtherStep ==
    \/ \E id \in DOMAIN stops : Register(id)
    \/ BuildIndex
    \/ \E id \in DOMAIN stops : Seed(id)
    \/ EndSeed
    \/ EndPropose
    \/ \E id \in DOMAIN stops : Remap(id)
    \/ EndRemap
    \/ \E key \in DOMAIN parent : ApplyKey(key)
    \/ EndApply
    \/ Backfill
    \/ Finish

\* Run has a next statement to execute: one of the steps above, or an
\* iteration of the propose loop on a stop of the feed
CanStep ==
    \/ ENABLED OtherStep
    \/ pc = "propose" /\ todo # {} /\ todo \subseteq DOMAIN stops

\* C21: on a feed with zero stops, with a single stop or with several stops
\* at identical coordinates Run never dereferences nil, always has a next
\* statement until it returns and does not loop for ever; on a single stop
\* it returns with exactly one cluster and exactly one inserted station
\* record, which is the Parent_station of that stop.
C21_DegenerateInputs ==
    /\ []~NilDereference
    /\ [](Returned \/ CanStep)
    /\ ([]<><<NextRunOnce>>_vars => <>Returned)
    /\ [](Returned /\ Cardinality(DOMAIN stops0) = 1 =>
            /\ numSets = 1
            /\ Cardinality({Root(parent, k) : k \in DOMAIN parent}) = 1
            /\ \E p \in NewIds :
                  /\ NewIds = {p}
                  /\ stops[p].Location_type = 1
                  /\ \A id \in DOMAIN stops0 : stops[id].Parent_station = <<p>>)

\* Run has returned on a single stop
C21_Witness ==
    /\ Returned
    /\ Cardinality(DOMAIN stops0) = 1
    /\ Cardinality(NewIds) = 1

(***************************************************************************)
(* Properties of the shape of the index (checked under SpecKD)             *)
(***************************************************************************)
Max(a, b) == IF a >= b THEN a ELSE b

\* number of nodes on the longest path from the node t down to a leaf
RECURSIVE Height(_)
Height(t) == IF t = Nil THEN 0 ELSE 1 + Max(Height(t.Left), Height(t.Right))

\* number of nodes of the tree t
RECURSIVE Size(_)
Size(t) == IF t = Nil THEN 0 ELSE 1 + Size(t.Left) + Size(t.Right)

\* floor(log2(n)) for n >= 1
RECURSIVE FloorLog2(_)
FloorLog2(n) == IF n <= 1 THEN 0 ELSE 1 + FloorLog2(n \div 2)

\* at every node the left subtree holds floor(len/2) of the len points of the
\* slice and the right subtree the len - 1 - floor(len/2) others
RECURSIVE SplitAtMedian(_)
SplitAtMedian(t) ==
    \/ t = Nil
    \/ /\ Size(t.Left) = Size(t) \div 2
       /\ Size(t.Left) - Size(t.Right) \in {0, 1}
       /\ SplitAtMedian(t.Left)
       /\ SplitAtMedian(t.Right)

\* C22: for every slice of n >= 1 points, in every order and with repeated
\* coordinates, BuildKDTree(points, 0) has height floor(log2(n)) + 1 and at
\* every node the sizes of the two subtrees differ by at most 1.
C22_BalancedBuild ==
    stored # <<>> =>
        LET t == BuildKDTree(stored, 0)
        IN  /\ Height(t) = FloorLog2(Len(stored)) + 1
            /\ SplitAtMedian(t)

\* the index has just been built from MaxPoints points of which two have the
\* same coordinates
C22_Witness ==
    /\ Len(stored) = MaxPoints
    /\ tree = BuildKDTree(stored, 0)
    /\ Height(tree) = FloorLog2(MaxPoints) + 1
    /\ \E i, j \in 1..Len(stored) :
          i < j /\ stored[i].Lat = stored[j].Lat /\ stored[i].Lon = stored[j].Lon

\* radiusKm = 0
RadiusZero == [mdeg |-> 0, hav2 |-> 0]

\* t2 is t with one nil link replaced by a leaf holding p, the link being
\* found from the root by going left where p's coordinate on the node's axis
\* is strictly smaller than the node's and right otherwise; every node of t
\* is in t2 with its point, its axis and its other subtree
RECURSIVE AddsLeaf(_, _, _)
AddsLeaf(t, t2, p) ==
    IF t = Nil
    THEN t2 # Nil /\ t2.Point = p /\ t2.Left = Nil /\ t2.Right = Nil
    ELSE /\ t2 # Nil
         /\ t2.Point = t.Point
         /\ t2.Axis = t.Axis
         /\ IF Coord(p, t.Axis) < Coord(t.Point, t.Axis)
            THEN t2.Right = t.Right /\ AddsLeaf(t.Left, t2.Left, p)
            ELSE t2.Left = t.Left /\ AddsLeaf(t.Right, t2.Right, p)

\* the step hands one more point to the index: root = Insert(root, p, 0)
\* (or the build of the index from that point alone)
AddsPoint == Len(stored') = Len(stored) + 1

\* C23: Insert(root, p, 0) attaches one new leaf holding p at the place the
\* descent by the nodes' axes leads to and leaves every other node as it
\* was; a range query centred on p then returns p, for every radius >= 0.
C23_InsertAddsLeaf ==
    [][AddsPoint =>
          LET p == stored'[Len(stored')]
          IN  /\ Size(tree') = Size(tree) + 1
              /\ AddsLeaf(tree, tree', p)
              /\ \A radius \in Radii \cup {RadiusZero} :
                    Count(SearchRange(tree', p, radius, 0, <<>>), p) >= 1]_vars

\* three points have been inserted one below the other, the last one with
\* the latitude of the root
C23_Witness ==
    /\ Len(stored) = 3
    /\ Height(tree) = 3
    /\ stored[3].Lat = tree.Point.Lat
    /\ Count(SearchRange(tree, stored[3], RadiusZero, 0, <<>>), stored[3]) >= 1

\* the points held by the nodes of the tree t
RECURSIVE PointsOf(_)
PointsOf(t) ==
    IF t = Nil THEN {} ELSE {t.Point} \cup PointsOf(t.Left) \cup PointsOf(t.Right)

\* the subtree t, whose root is at depth d, is ordered: the axis of every
\* node is its depth mod 2, no point to its left has a greater and no point
\* to its right a smaller coordinate on that axis
RECURSIVE Ordered(_, _)
Ordered(t, d) ==
    \/ t = Nil
    \/ /\ t.Axis = d % 2
       /\ \A p \in PointsOf(t.Left) : Coord(p, t.Axis) <= Coord(t.Point, t.Axis)
       /\ \A p \in PointsOf(t.Right) : Coord(p, t.Axis) >= Coord(t.Point, t.Axis)
       /\ Ordered(t.Left, d + 1)
       /\ Ordered(t.Right, d + 1)

\* C24: after BuildKDTree(points, 0) and any sequence of Insert(root, p, 0)
\* every node at depth d has Axis = d mod 2, the points of its left subtree
\* have a coordinate <= its own on that axis and those of its right subtree
\* a coordinate >= its own: the axis SearchRange derives from the depth is
\* the axis the node splits on.
C24_OrderingInvariant == Ordered(tree, 0)

\* a point has been inserted below the left child of a built root, and that
\* child has the latitude of the root
C24_Witness ==
    /\ Size(tree) = 3
    /\ Height(tree) = 3
    /\ tree.Left # Nil
    /\ tree.Left.Point.Lat = tree.Point.Lat
    /\ tree.Left.Axis = 1
    /\ Ordered(tree, 0)

\* the points held by the nodes of the tree t, left subtree first
RECURSIVE TreeSeq(_)
TreeSeq(t) ==
    IF t = Nil THEN <<>> ELSE TreeSeq(t.Left) \o <<t.Point>> \o TreeSeq(t.Right)

\* the radius of the query covers every stored point
CoversAll == \A i \in 1..Len(stored) : WithinRadius(query, stored[i], query.radius)

\* the nodes of BuildKDTree(points, 0) hold every input point exactly as
\* often as the input does
BuildKeepsPoints ==
    /\ \A i \in 1..Len(stored) :
          Count(TreeSeq(BuildKDTree(stored, 0)), stored[i]) = Count(stored, stored[i])
    /\ Len(TreeSeq(BuildKDTree(stored, 0))) = Len(stored)

\* C25: the multiset of the points of BuildKDTree(points, 0) is the multiset
\* of the input points, so a query whose radius covers all points returns
\* exactly len(points) results.
C25_BuildKeepsPoints ==
    /\ BuildKeepsPoints
    /\ (Searched /\ CoversAll) => Len(results) = Len(stored)

(***************************************************************************)
(* Properties of the forest of the union-find (checked under SpecUF)       *)
(***************************************************************************)
\* following the parent links of p from the id i reaches an id r with
\* p[r] = r without leaving the registered ids and without meeting one of
\* the ids of seen, those visited before, again
RECURSIVE ReachesRoot(_, _, _)
ReachesRoot(p, i, seen) ==
    /\ i \in DOMAIN p
    /\ i \notin seen
    /\ \/ p[i] = i
       \/ ReachesRoot(p, p[i], seen \cup {i})

\* C26: after any sequence of InitKey (on distinct ids), MarkAsParent,
\* FindSet and UnionSet calls on registered ids, the parent links lead from
\* every registered id, without visiting an id twice, to an id r with
\* parent[r] = r.
C26_ForestShape == \A k \in Registered : ReachesRoot(parent, k, {})

\* an id is two links away from its root
C26_Witness ==
    \E k \in Registered :
        /\ parent[k] # k
        /\ parent[parent[k]] # parent[k]
        /\ ReachesRoot(parent, k, {})

\* the registered ids in the set of the id i
SetOf(i) == {j \in Registered : Root(parent, j) = Root(parent, i)}

\* the sum of size[k] over the ids k of ks
RECURSIVE SumOfSizes(_)
SumOfSizes(ks) ==
    IF ks = {} THEN 0
    ELSE LET k == CHOOSE k \in ks : TRUE
         IN  MapGet(size, k, 0) + SumOfSizes(ks \ {k})

\* C27: after any sequence of InitKey (on distinct ids), FindSet and UnionSet
\* calls, SizeOfSet(i) = size[FindSet(i)] is the number of registered ids in
\* the set of i, whichever branch of UnionSet made the merges, and the sizes
\* of the roots add up to the number of registered ids.
C27_SizeBookkeeping ==
    /\ \A i \in Registered :
          MapGet(size, Root(parent, i), 0) = Cardinality(SetOf(i))
    /\ SumOfSizes({k \in Registered : IsRoot(parent, k)}) = Cardinality(Registered)
    /\ op.name = "SizeOfSet" => op.y = Cardinality(SetOf(op.x))

\* SizeOfSet has returned 3 for a set merged under a preferred root of lower
\* rank than one of its children
C27_Witness ==
    /\ op.name = "SizeOfSet"
    /\ op.y = 3
    /\ Preferred(Root(parent, op.x))
    /\ \E l \in SetOf(op.x) :
          /\ parent[l] = Root(parent, op.x)
          /\ l # Root(parent, op.x)
          /\ rank[l] > rank[Root(parent, op.x)]

\* C28: in a UnionSet of two different roots of which neither or both are
\* flagged preferred, a root of strictly lower rank is attached under the
\* root of higher rank and no rank changes; with equal ranks one root is
\* attached under the other and the rank of the surviving root, and no other
\* rank, goes up by exactly 1.
C28_MergeByRank ==
    [][IsUnion(op') =>
         LET xRoot == Root(parent, op'.x)
             yRoot == Root(parent, op'.y)
         IN  (xRoot # yRoot /\ Preferred(xRoot) = Preferred(yRoot)) =>
                /\ \A hi \in {xRoot, yRoot} : \A lo \in {xRoot, yRoot} :
                      rank[lo] < rank[hi] =>
                          /\ parent'[lo] = hi
                          /\ parent'[hi] = hi
                          /\ rank' = rank
                /\ rank[xRoot] = rank[yRoot] =>
                      \E w \in {xRoot, yRoot} : \E l \in {xRoot, yRoot} :
                          /\ w # l
                          /\ parent'[l] = w
                          /\ parent'[w] = w
                          /\ rank' = [rank EXCEPT ![w] = rank[w] + 1]]_vars

\* UnionSet(x, y) has attached the preferred root x of rank 0 under the
\* preferred root of y's set, of rank 1
C28_Witness ==
    /\ op.name = "UnionSet"
    /\ op.x # op.y
    /\ parent[op.x] = Root(parent, op.y)
    /\ parent[op.x] # op.x
    /\ Preferred(op.x) /\ Preferred(parent[op.x])
    /\ rank[op.x] = 0
    /\ rank[parent[op.x]] = 1

\* C29: Apply(f) calls f exactly once for each id registered with InitKey,
\* and the second argument of each call is the root FindSet returns for the
\* id, an id r with parent[r] = r, whatever order the range over uf.parent
\* takes.
C29_ApplyVisitsRoots ==
    op.name = "Apply" =>
        /\ Len(op.calls) = Cardinality(Registered)
        /\ \A k \in Registered :
              Cardinality({i \in 1..Len(op.calls) : op.calls[i][1] = k}) = 1
        /\ \A i \in 1..Len(op.calls) :
              /\ op.calls[i][2] = Root(parent, op.calls[i][1])
              /\ IsRoot(parent, op.calls[i][2])

\* Apply has called f on three ids of one set whose root, merged as the
\* preferred one, has a lower rank than one of the members
C29_Witness ==
    /\ op.name = "Apply"
    /\ Len(op.calls) = 3
    /\ \A i \in 1..3 : op.calls[i][2] = op.calls[1][2]
    /\ \E k \in Registered : rank[k] > rank[op.calls[1][2]]

\* the sequence s starts with the sequence pre
IsPrefix(pre, s) == Len(pre) <= Len(s) /\ SubSeq(s, 1, Len(pre)) = pre

\* C30: SearchRange changes no node of the index, neither a point, an axis
\* nor a child link; it changes the result sequence of the caller only, and
\* only by appending to it: what the sequence held before the call is the
\* beginning of what it holds after the call.
C30_SearchReadOnly ==
    /\ [][query' # <<>> => tree' = tree /\ stored' = stored]_vars
    /\ [](Searched =>
             LET out == SearchRange(tree, query, query.radius, 0, <<query>>)
             IN  /\ IsPrefix(<<query>>, out)
                 /\ SubSeq(out, 2, Len(out)) = results)

\* a tree grown by Insert to three levels has been searched and every point
\* of it returned
C30_Witness ==
    /\ Searched
    /\ Size(tree) = 3
    /\ Height(tree) = 3
    /\ Len(results) = 3
    /\ \A p \in PointsOf(tree) : Count(results, p) = 1

\* the loops of Run numbered from the last one to the first
PhaseRank ==
    [register |-> 6, seed |-> 5, propose |-> 4, remap |-> 3, apply |-> 2,
     backfill |-> 1, done |-> 0, idle |-> 0]

\* the step brings Run nearer to its end: it starts a later loop, or it
\* takes a key off those the running loop has still to visit
Advances ==
    \/ PhaseRank[pc'] < PhaseRank[pc]
    \/ pc' = pc /\ todo' \subseteq todo /\ todo' # todo

\* visiting a record this call of Run has inserted changes nothing, in the
\* remap loop and in the backfill loop
InsertedRecordsInert ==
    \A id \in NewIds :
        /\ RemapStop(stops, id) = stops
        /\ BackfillStop(stops, id) = stops

\* C31: Run terminates on every feed: every step takes it nearer to its end
\* in a well-founded order and it has a next statement until it returns; a
\* "par::" record inserted while feed.Stops is ranged over causes no further
\* insertion, and every FindSet call ends because the parent links lead
\* from every key to a root.
C31_Terminates ==
    /\ [][Advances]_vars
    /\ [](Returned \/ CanStep)
    /\ []InsertedRecordsInert
    /\ [](\A k \in DOMAIN parent : ReachesRoot(parent, k, {}))

\* Run has returned after its remap loop inserted the record of a parent
\* station while ranging over feed.Stops
C31_Witness ==
    /\ Returned
    /\ Cardinality(DOMAIN parent) = 2
    /\ \E id \in DOMAIN stops0 :
          /\ stops0[id].Parent_station # NilStop
          /\ ParId(stops0[id].Parent_station[1]) \in NewIds

\* no stop id of the feed f starts with "par::": the ids are plain keys
NoParIds(f) == \A id \in DOMAIN f : \E i \in 1..Len(AllKeys) : id = AllKeys[i]

\* C32: after Run on a feed in which no stop id starts with "par::", every
\* record the run inserted has a nil Parent_station, and the Parent_station
\* of every input stop is such a record: the chain of every input stop is
\* stop -> inserted station -> nil, of length exactly 1 and without a cycle.
C32_FlatHierarchy ==
    (Returned /\ NoParIds(stops0)) =>
        /\ \A id \in NewIds : stops[id].Parent_station = NilStop
        /\ \A id \in DOMAIN stops0 :
              /\ stops[id].Parent_station # NilStop
              /\ stops[id].Parent_station[1] \in NewIds
              /\ stops[stops[id].Parent_station[1]].Parent_station = NilStop

\* Run has returned on a feed in which a stop had a parent that had a parent
C32_Witness ==
    /\ Returned
    /\ NoParIds(stops0)
    /\ \E c \in DOMAIN stops0 :
          /\ stops0[c].Parent_station # NilStop
          /\ stops0[stops0[c].Parent_station[1]].Parent_station # NilStop
          /\ stops[c].Parent_station[1] \in NewIds
          /\ stops[stops[c].Parent_station[1]].Parent_station = NilStop

(***************************************************************************)
(* Properties of ExtendTripHeadSign.Run (checked under SpecHead)           *)
(***************************************************************************)
\* the goroutines that have been started and have not ended
RunningWorkers == {id \in DOMAIN workers : workers[id] \in {"body", "release", "done"}}

\* the goroutines that have sent on sem and not yet received from it
HoldingWorkers == {id \in DOMAIN workers : workers[id] \in {"body", "release"}}

\* Run returns only after every goroutine it started has ended
ReturnsAfterWorkers == hsPc = "returned" => RunningWorkers = {}

\* at most runtime.NumCPU() goroutines are running at once
WorkersBounded == Cardinality(RunningWorkers) <= maxThreads

\* at most runtime.NumCPU() goroutines are between the send on sem and the
\* receive from it, and these are the values in the channel
HoldersBounded ==
    /\ Cardinality(HoldingWorkers) = sem
    /\ sem <= maxThreads

\* when Run has returned, feed.Trips is what the sequential version leaves
SameAsSequential ==
    hsPc = "returned" =>
        /\ ~SequentialPanics(trips0)
        /\ trips = RunSequential(trips0)

\* a headsign that is present is never overwritten
HeadsignKept ==
    \A id \in DOMAIN trips :
        trips0[id].Headsign # "" => trips[id] = trips0[id]

\* no goroutine panics
NoPanic == hsPc # "panicked"

\* C33: for every feed and every interleaving of the goroutines, the
\* goroutine version of ExtendTripHeadSign.Run returns only after all its
\* goroutines have ended, never has more than runtime.NumCPU() of them
\* running at once, and leaves every trip with the headsign the sequential
\* version produces: a headsign that is present is kept, an empty one
\* becomes the name of the last stop of the trip.
C33_ParallelEqualsSequential ==
    /\ ReturnsAfterWorkers
    /\ WorkersBounded
    /\ SameAsSequential
    /\ HeadsignKept
    /\ NoPanic

\* the number of parent links from the id k to its root
RECURSIVE LinksToRoot(_, _)
LinksToRoot(p, k) == IF p[k] = k THEN 0 ELSE 1 + LinksToRoot(p, p[k])

\* C34: after any sequence of InitKey, MarkAsParent, FindSet and UnionSet
\* calls, for every root r the longest chain of parent links that ends in r
\* has at most rank[r] links, also after a merge decided by the preferred
\* root rule.
C34_RankBoundsHeight ==
    \A k \in Registered :
        LinksToRoot(parent, k) <= rank[Root(parent, k)]

====
